---- MODULE Spec2Model ----
(***************************************************************************)
(* Verification model of LuaUI (Bluezly/luaui).                            *)
(*                                                                         *)
(*   Part A  AdvancedReactiveSystem (src/luaui.js): track / trigger /      *)
(*           effect / stop / watch / queueJob / flushJobs, as a call-stack *)
(*           machine (JavaScript is single threaded: when the call stack   *)
(*           is not empty only the top frame can move).                    *)
(*   Part B  AdvancedComponent diff / patch (src/luaui.js).                *)
(*   Part C  v1 DOMRenderer, ReactiveSystem and LuaUIRuntime               *)
(*           (src/unnamed/part_000).                                       *)
(*   Part D  LuaUIRuntime.mount / unmount (src/luaui.js).                  *)
(*   Part E  v1 ReactiveSystem triggerUpdate / scheduleUpdate /            *)
(*           flushUpdates (src/unnamed/part_000).                          *)
(*   Part F  AdvancedParser, AdvancedCompiler and LuaUIRuntime.compile     *)
(*           (src/luaui.js).                                               *)
(*   Part G  the numeric for loop: forStatement and compileForStatement    *)
(*           of both versions, and the loop they emit.                     *)
(*   Part H  readonly and reactive proxies (src/luaui.js).                 *)
(*   Part I  queueJob / queueFlush / flushJobs over opaque jobs            *)
(*           (src/luaui.js).                                               *)
(*   Part J  AdvancedComponent setState / scheduleUpdate / performUpdate   *)
(*           (src/luaui.js).                                               *)
(*   Part K  LuaUIRuntime.compileAndMount and the component registry       *)
(*           (src/luaui.js).                                               *)
(***************************************************************************)
EXTENDS Integers, Sequences, FiniteSets, TLC

(***************************************************************************)
(* Bounds                                                                  *)
(***************************************************************************)
\* instructions one run of an effect body may execute
MaxBody == 2
\* depth of the JavaScript call stack (frames of the machine of Part A)
MaxDepth == 5

(***************************************************************************)
(* Part A.  AdvancedReactiveSystem                                         *)
(***************************************************************************)
VARIABLES
    target,          \* the raw object behind the reactive proxy: key -> value
    depsMap,         \* targetMap.get(target): key -> dep (a Set, insertion ordered)
    effDeps,         \* effect.deps: the deps the effect was added to (its order is never used)
    created,         \* the effect / watcher has been created
    active,          \* effect.active
    computedFlag,    \* effect.computed
    effId,           \* effect.id
    uid,             \* this.uid
    currentEffect,   \* this.currentEffect
    effectStack,     \* this.effectStack
    queue,           \* this.queue (a Set, insertion ordered)
    isFlushPending,  \* this.isFlushPending
    watchKey,        \* the key the watcher's getter reads
    watchDeep,       \* options.deep of the watcher
    oldValue,        \* the closure variable oldValue of watch()
    retVal,          \* value returned by the last finished call of runner()
    callStack        \* the JavaScript call stack

rvars == <<target, depsMap, effDeps, created, active, computedFlag, effId, uid,
           currentEffect, effectStack, queue, isFlushPending, watchKey, watchDeep,
           oldValue, retVal, callStack>>

\* ---- Part B: AdvancedComponent (src/luaui.js) ----
VARIABLES
    compVNode,        \* this.vnode
    compElement,      \* this.element, as the tree it is the root of
    elementAttached,  \* this.element.parentNode is the container
    containerChild,   \* the node the container shows
    compHasError,     \* this.hasError
    updateCount       \* this.updateCount

bvars == <<compVNode, compElement, elementAttached, containerChild, compHasError, updateCount>>

\* ---- Part C: v1 DOMRenderer, ReactiveSystem, LuaUIRuntime (src/unnamed/part_000) ----
VARIABLES
    cWorld,        \* the render target, the renderer's and the reactive system's maps
    cTree,         \* the VNode tree user code holds as the current tree of the container
    cInstances,    \* LuaUIRuntime.instances: appId -> instance
    cMountedApps,  \* LuaUIRuntime.mountedApps: container -> appId
    cLast,         \* the last operation called, with what it was called on
    cOps           \* operations called so far

cvars == <<cWorld, cTree, cInstances, cMountedApps, cLast, cOps>>

\* ---- Part D: LuaUIRuntime mount and unmount (src/luaui.js) ----
VARIABLES
    dContainers,   \* what each container element holds, in document order
    dInsts,        \* the component instances constructed so far
    dInstances,    \* LuaUIRuntime.instances: appId -> instance
    dMountedApps,  \* LuaUIRuntime.mountedApps: container -> appId
    dOutcome,      \* how the last call of mount ended
    dCalls         \* calls made so far

dvars == <<dContainers, dInsts, dInstances, dMountedApps, dOutcome, dCalls>>

\* ---- Part E: v1 ReactiveSystem update queue (src/unnamed/part_000) ----
VARIABLES
    uState,         \* the state object of each component: key -> value
    uObservers,     \* observers: the (component, key) pairs whose observer set holds the component
    uMounted,       \* component.mounted (and component.element set)
    updateQueue,    \* ReactiveSystem.updateQueue (a Set, in insertion order)
    isUpdating,     \* ReactiveSystem.isUpdating
    uMicrotasks,    \* flushUpdates microtasks scheduled and not yet run
    uFlush,         \* the flushUpdates call in progress, if any
    uDirty,         \* components with a changed key they depend on since the last flush began
    uCalls,         \* calls of update() per component in the current or last flush
    uSteps          \* assignments made so far

uvars == <<uState, uObservers, uMounted, updateQueue, isUpdating, uMicrotasks, uFlush, uDirty, uCalls, uSteps>>

\* ---- Part F: AdvancedParser, AdvancedCompiler and LuaUIRuntime.compile (src/luaui.js) ----
VARIABLES
    pTokens,        \* the token list of the source text, EOF last
    pAst,           \* what parser.parse() returned, if called
    pCompiled,      \* what runtime.compile(source) returned or threw, if called
    pCall           \* the call made on the source text

pvars == <<pTokens, pAst, pCompiled, pCall>>

\* ---- Part G: the loop generated for a numeric for statement (both compilers) ----
VARIABLES
    gNode,          \* the for statement of the source: start, end and step
    gCompiler,      \* the compiler that generated the loop
    gCode,          \* the generated JavaScript for loop
    gI,             \* the loop variable of the running loop
    gRuns,          \* the values of the loop variable the body ran with, in order
    gPc             \* source, test, body or done

gvars == <<gNode, gCompiler, gCode, gI, gRuns, gPc>>

\* ---- Part H: AdvancedReactiveSystem.readonly and reactive proxies of one object (src/luaui.js) ----
VARIABLES
    hTarget,        \* the wrapped object: key -> value, Undefined for an absent key
    hWarnings,      \* calls of console.warn so far
    hTriggers,      \* calls of trigger(target, ...) so far
    hLast           \* the last operation made through a proxy and how it ended

hvars == <<hTarget, hWarnings, hTriggers, hLast>>

\* ---- Part I: the job queue of AdvancedReactiveSystem with plain jobs (src/luaui.js) ----
VARIABLES
    jobQueue,       \* this.queue (a Set, insertion ordered)
    jobFlushPending,\* this.isFlushPending
    jobFlush,       \* the flushJobs call in progress: its sorted copy of the queue, this.flushIndex, the job running
    jobRuns,        \* calls of each job in the flush in progress or, after it, in the last flush
    jobAsked        \* jobs a running job passed to queueJob that no later flush has taken yet

jvars == <<jobQueue, jobFlushPending, jobFlush, jobRuns, jobAsked>>

\* ---- Part J: AdvancedComponent.setState, scheduleUpdate, performUpdate (luaui.js) ----
VARIABLES
    kIsUpdating,    \* this.isUpdating
    kIsUnmounting,  \* this.isUnmounting
    kTicks,         \* microtasks queued by scheduleUpdate and not yet run
    kPc,            \* where the running microtask is: idle, render, didUpdate
    kHasError,      \* this.hasError
    kUpdateCount,   \* this.updateCount
    kCalls,         \* setState calls made so far
    kOwed           \* a setState call was made and no performUpdate has started since

kvars == <<kIsUpdating, kIsUnmounting, kTicks, kPc, kHasError, kUpdateCount, kCalls, kOwed>>

\* ---- Part K: LuaUIRuntime.compileAndMount and the component registry (luaui.js) ----
VARIABLES
    mComponents,    \* this.components: name -> class, in insertion order; a class is named by the call that defined it
    mMounted,       \* the class the last call of compileAndMount mounted
    mCompiles       \* calls of compileAndMount so far

mvars == <<mComponents, mMounted, mCompiles>>

\* the variables each part leaves alone
notA == <<bvars, cvars, dvars, uvars, pvars, gvars, hvars, jvars, kvars, mvars>>
notB == <<rvars, cvars, dvars, uvars, pvars, gvars, hvars, jvars, kvars, mvars>>
notC == <<rvars, bvars, dvars, uvars, pvars, gvars, hvars, jvars, kvars, mvars>>
notD == <<rvars, bvars, cvars, uvars, pvars, gvars, hvars, jvars, kvars, mvars>>
notE == <<rvars, bvars, cvars, dvars, pvars, gvars, hvars, jvars, kvars, mvars>>
notF == <<rvars, bvars, cvars, dvars, uvars, gvars, hvars, jvars, kvars, mvars>>
notG == <<rvars, bvars, cvars, dvars, uvars, pvars, hvars, jvars, kvars, mvars>>
notH == <<rvars, bvars, cvars, dvars, uvars, pvars, gvars, jvars, kvars, mvars>>
notI == <<rvars, bvars, cvars, dvars, uvars, pvars, gvars, hvars, kvars, mvars>>
notJ == <<rvars, bvars, cvars, dvars, uvars, pvars, gvars, hvars, jvars, mvars>>
notK == <<rvars, bvars, cvars, dvars, uvars, pvars, gvars, hvars, jvars, kvars>>
vars == <<rvars, bvars, cvars, dvars, uvars, pvars, gvars, hvars, jvars, kvars, mvars>>

Keys == {"a", "b"}
Vals == {"v0", "v1"}
Undefined == "undefined"
None == "none"
PlainEffects == {"E1", "E2"}
Watcher == "W"
Effects == PlainEffects \cup {Watcher}

\* ---- helpers on insertion-ordered sets (JavaScript Set) ----
Range(s) == {s[i] : i \in 1..Len(s)}

SeqRemove(s, x) == SelectSeq(s, LAMBDA y : y # x)

SetAdd(s, x) == IF x \in Range(s) THEN s ELSE Append(s, x)

\* ++this.uid: uid is never initialised, so it is undefined and then NaN for ever
NaN == "NaN"
Increment(u) == NaN

\* the comparator (a, b) => a.id - b.id of flushJobs; a NaN result counts as 0
IdCompare(x, y) == IF x = NaN \/ y = NaN \/ x = Undefined \/ y = Undefined THEN 0 ELSE x - y

\* Array.prototype.sort is stable: x goes after every element that does not compare above it
RECURSIVE InsertById(_, _, _)
InsertById(sorted, x, ids) ==
    IF sorted = <<>> THEN <<x>>
    ELSE IF IdCompare(ids[Head(sorted)], ids[x]) <= 0
         THEN <<Head(sorted)>> \o InsertById(Tail(sorted), x, ids)
         ELSE <<x>> \o sorted

RECURSIVE SortById(_, _)
SortById(s, ids) ==
    IF s = <<>> THEN <<>>
    ELSE InsertById(SortById(SubSeq(s, 1, Len(s) - 1), ids), s[Len(s)], ids)

\* ---- frames of the call stack ----
\*  run      : the body fn of effect eff is executing (left = instructions it may still do)
\*  pass     : trigger() iterating the effects it collected (todo)
\*  job      : the scheduler job of watch(); stage "call" before runner(), "ret" after
\*  baseline : watch() waiting for oldValue = runner()
\*  flush    : flushJobs() iterating its sorted snapshot (todo)
\*  callback : the callback given to watch() is executing
Frame(kind, eff, left, reads, todo, stage) ==
    [kind |-> kind, eff |-> eff, left |-> left, reads |-> reads, todo |-> todo, stage |-> stage]

RunFrame(e) == Frame("run", e, MaxBody, {}, <<>>, "body")
PassFrame(todo) == Frame("pass", None, 0, {}, todo, "iter")
JobFrame(stage) == Frame("job", Watcher, 0, {}, <<>>, stage)
BaselineFrame == Frame("baseline", Watcher, 0, {}, <<>>, "ret")
FlushFrame(todo) == Frame("flush", None, 0, {}, todo, "iter")
CallbackFrame == Frame("callback", Watcher, 0, {}, <<>>, "body")

Top == callStack[Len(callStack)]
Pop == SubSeq(callStack, 1, Len(callStack) - 1)
ReplaceTop(f) == Append(Pop, f)
Idle == callStack = <<>>

\* ---- track(target, type, key): the dependency maps after currentEffect reads key ----
TrackDepsMap(dm, cur, k) ==
    IF cur = None THEN dm ELSE [dm EXCEPT ![k] = SetAdd(@, cur)]

TrackEffDeps(dm, ed, cur, k) ==
    IF cur = None \/ cur \in Range(dm[k]) THEN ed
    ELSE [ed EXCEPT ![cur] = @ \cup {k}]

\* ---- cleanup(effect) ----
CleanupDepsMap(dm, ed, e) ==
    [k \in Keys |-> IF k \in ed[e] THEN SeqRemove(dm[k], e) ELSE dm[k]]

CleanupEffDeps(ed, e) == [ed EXCEPT ![e] = {}]

\* ---- trigger(target, type, key): the effects it will run, computed runners first ----
TriggerCollect(dm, cur, k) ==
    SelectSeq(dm[k], LAMBDA x : x # cur /\ computedFlag[x])
        \o SelectSeq(dm[k], LAMBDA x : x # cur /\ ~computedFlag[x])

\* the keys whose dep holds effect e
DepsOf(dm, e) == {k \in Keys : e \in Range(dm[k])}

\* ---- stop(effect): onStop is not given ----
StopDepsMap(dm, ed, e) == IF active[e] THEN CleanupDepsMap(dm, ed, e) ELSE dm

StopEffDeps(ed, e) == IF active[e] THEN CleanupEffDeps(ed, e) ELSE ed

\* ---- the effect wrapper entered with effect.active true: cleanup, push, run fn ----
EnterEffect(e, base) ==
    /\ Len(base) < MaxDepth
    /\ depsMap' = CleanupDepsMap(depsMap, effDeps, e)
    /\ effDeps' = CleanupEffDeps(effDeps, e)
    /\ currentEffect' = e
    /\ effectStack' = Append(effectStack, e)
    /\ callStack' = Append(base, RunFrame(e))

RInit ==
    /\ target = [k \in Keys |-> "v0"]
    /\ depsMap = [k \in Keys |-> <<>>]
    /\ effDeps = [e \in Effects |-> {}]
    /\ created = [e \in Effects |-> FALSE]
    /\ active = [e \in Effects |-> FALSE]
    /\ computedFlag = [e \in Effects |-> FALSE]
    /\ effId = [e \in Effects |-> Undefined]
    /\ uid = Undefined
    /\ currentEffect = None
    /\ effectStack = <<>>
    /\ queue = <<>>
    /\ isFlushPending = FALSE
    /\ watchKey = "a"
    /\ watchDeep = FALSE
    /\ oldValue = Undefined
    /\ retVal = Undefined
    /\ callStack = <<>>

\* ---- operations called by user code between tasks (call stack empty) ----

\* effect(fn, {computed: c}): not lazy, so the effect runs at once
\* (the two effects are interchangeable, so "E1" names the one created first)
Effect(e, c) ==
    /\ Idle /\ e \in PlainEffects /\ ~created[e]
    /\ e = "E2" => created["E1"]
    /\ uid' = Increment(uid)
    /\ effId' = [effId EXCEPT ![e] = Increment(uid)]
    /\ active' = [active EXCEPT ![e] = TRUE]
    /\ created' = [created EXCEPT ![e] = TRUE]
    /\ computedFlag' = [computedFlag EXCEPT ![e] = c]
    /\ EnterEffect(e, <<>>)
    /\ UNCHANGED <<target, queue, isFlushPending, watchKey, watchDeep, oldValue, retVal, notA>>

\* watch(() => proxy[k], callback, {immediate, deep})
Watch(k, immediate, deep) ==
    /\ Idle /\ ~created[Watcher]
    /\ uid' = Increment(uid)
    /\ effId' = [effId EXCEPT ![Watcher] = Increment(uid)]
    /\ active' = [active EXCEPT ![Watcher] = TRUE]
    /\ created' = [created EXCEPT ![Watcher] = TRUE]
    /\ watchKey' = k
    /\ watchDeep' = deep
    /\ IF immediate
       THEN /\ callStack' = <<JobFrame("call")>>
            /\ UNCHANGED <<depsMap, effDeps, currentEffect, effectStack>>
       ELSE EnterEffect(Watcher, <<BaselineFrame>>)
    /\ UNCHANGED <<target, computedFlag, queue, isFlushPending, oldValue, retVal, notA>>

\* proxy[k] = v  (the set trap of reactive())
Set(k, v) ==
    /\ Idle
    /\ target' = [target EXCEPT ![k] = v]
    /\ IF target[k] # v
       THEN LET todo == TriggerCollect(depsMap, currentEffect, k) IN
            /\ callStack' = <<PassFrame(todo)>>
       ELSE UNCHANGED callStack
    /\ UNCHANGED <<depsMap, effDeps, created, active, computedFlag, effId, uid,
                   currentEffect, effectStack, queue, isFlushPending, watchKey, watchDeep,
                   oldValue, retVal, notA>>

\* stop(effect), or the unwatch function watch() returned
Stop(e) ==
    /\ Idle /\ created[e]
    /\ depsMap' = StopDepsMap(depsMap, effDeps, e)
    /\ effDeps' = StopEffDeps(effDeps, e)
    /\ active' = [active EXCEPT ![e] = FALSE]
    /\ UNCHANGED <<target, created, computedFlag, effId, uid, currentEffect, effectStack,
                   queue, isFlushPending, watchKey, watchDeep, oldValue, retVal, callStack, notA>>

\* queueJob(effect)
QueueJob(e) ==
    /\ Idle /\ e \in PlainEffects /\ created[e]
    /\ queue' = SetAdd(queue, e)
    /\ isFlushPending' = (isFlushPending \/ e \notin Range(queue))
    /\ UNCHANGED <<target, depsMap, effDeps, created, active, computedFlag, effId, uid,
                   currentEffect, effectStack, watchKey, watchDeep, oldValue, retVal,
                   callStack, notA>>

\* the microtask queueFlush() scheduled: flushJobs() up to the start of its loop
\* (pendingPreFlushCbs and pendingPostFlushCbs are never filled, so both phases are empty)
FlushJobs ==
    /\ Idle /\ isFlushPending
    /\ isFlushPending' = FALSE
    /\ queue' = <<>>
    /\ callStack' = <<FlushFrame(SortById(queue, effId))>>
    /\ UNCHANGED <<target, depsMap, effDeps, created, active, computedFlag, effId, uid,
                   currentEffect, effectStack, watchKey, watchDeep, oldValue, retVal, notA>>

\* ---- steps of the frame on top of the call stack ----
Running(kind) == ~Idle /\ Top.kind = kind

InBody == Running("run") /\ Top.eff \in PlainEffects /\ Top.left > 0

Spent(f) == [f EXCEPT !.left = @ - 1]

\* the body reads proxy[k]: the get trap calls track(target, 'get', k)
RunRead(k) ==
    /\ InBody
    /\ depsMap' = TrackDepsMap(depsMap, currentEffect, k)
    /\ effDeps' = TrackEffDeps(depsMap, effDeps, currentEffect, k)
    /\ callStack' = ReplaceTop([Spent(Top) EXCEPT !.reads = @ \cup {k}])
    /\ UNCHANGED <<target, created, active, computedFlag, effId, uid, currentEffect,
                   effectStack, queue, isFlushPending, watchKey, watchDeep, oldValue,
                   retVal, notA>>

\* the body assigns proxy[k] = v: the set trap calls trigger() when the value changed
RunWrite(k, v) ==
    /\ InBody
    /\ target' = [target EXCEPT ![k] = v]
    /\ IF target[k] # v
       THEN LET todo == TriggerCollect(depsMap, currentEffect, k) IN
            /\ Len(callStack) < MaxDepth
            /\ callStack' = Append(ReplaceTop(Spent(Top)), PassFrame(todo))
       ELSE callStack' = ReplaceTop(Spent(Top))
    /\ UNCHANGED <<depsMap, effDeps, created, active, computedFlag, effId, uid,
                   currentEffect, effectStack, queue, isFlushPending, watchKey, watchDeep,
                   oldValue, retVal, notA>>

\* the body calls stop(e), or the unwatch function
RunStop(e) ==
    /\ InBody /\ created[e]
    /\ depsMap' = StopDepsMap(depsMap, effDeps, e)
    /\ effDeps' = StopEffDeps(effDeps, e)
    /\ active' = [active EXCEPT ![e] = FALSE]
    /\ callStack' = ReplaceTop(Spent(Top))
    /\ UNCHANGED <<target, created, computedFlag, effId, uid, currentEffect, effectStack,
                   queue, isFlushPending, watchKey, watchDeep, oldValue, retVal, notA>>

\* the body calls queueJob(e)
RunQueueJob(e) ==
    /\ InBody /\ e \in PlainEffects /\ created[e]
    /\ queue' = SetAdd(queue, e)
    /\ isFlushPending' = (isFlushPending \/ e \notin Range(queue))
    /\ callStack' = ReplaceTop(Spent(Top))
    /\ UNCHANGED <<target, depsMap, effDeps, created, active, computedFlag, effId, uid,
                   currentEffect, effectStack, watchKey, watchDeep, oldValue, retVal, notA>>

\* the watcher's getter () => proxy[watchKey]: reads, and returns the value
RunGetter ==
    /\ Running("run") /\ Top.eff = Watcher /\ Top.stage = "body"
    /\ depsMap' = TrackDepsMap(depsMap, currentEffect, watchKey)
    /\ effDeps' = TrackEffDeps(depsMap, effDeps, currentEffect, watchKey)
    /\ retVal' = target[watchKey]
    /\ callStack' = ReplaceTop([Top EXCEPT !.reads = {watchKey}, !.stage = "done", !.left = 0])
    /\ UNCHANGED <<target, created, active, computedFlag, effId, uid, currentEffect,
                   effectStack, queue, isFlushPending, watchKey, watchDeep, oldValue, notA>>

\* fn returns: the finally block of the effect wrapper
RunReturn ==
    /\ Running("run")
    /\ Top.eff = Watcher => Top.stage = "done"
    /\ effectStack' = SubSeq(effectStack, 1, Len(effectStack) - 1)
    /\ currentEffect' = IF Len(effectStack) > 1 THEN effectStack[Len(effectStack) - 1] ELSE None
    /\ callStack' = Pop
    /\ UNCHANGED <<target, depsMap, effDeps, created, active, computedFlag, effId, uid,
                   queue, isFlushPending, watchKey, watchDeep, oldValue, retVal, notA>>

\* trigger(): effects.forEach reaches an effect without scheduler that is active
PassRunEffect ==
    /\ Running("pass") /\ Top.todo # <<>>
    /\ Head(Top.todo) \in PlainEffects /\ active[Head(Top.todo)]
    /\ EnterEffect(Head(Top.todo), ReplaceTop([Top EXCEPT !.todo = Tail(@)]))
    /\ UNCHANGED <<target, created, active, computedFlag, effId, uid, queue,
                   isFlushPending, watchKey, watchDeep, oldValue, retVal, notA>>

\* trigger(): the effect was stopped after it was collected: effect() does nothing
PassSkipInactive ==
    /\ Running("pass") /\ Top.todo # <<>>
    /\ Head(Top.todo) \in PlainEffects /\ ~active[Head(Top.todo)]
    /\ callStack' = ReplaceTop([Top EXCEPT !.todo = Tail(@)])
    /\ UNCHANGED <<target, depsMap, effDeps, created, active, computedFlag, effId, uid,
                   currentEffect, effectStack, queue, isFlushPending, watchKey, watchDeep,
                   oldValue, retVal, notA>>

\* trigger(): the effect has a scheduler (the watcher): effect.scheduler() is job()
PassRunScheduler ==
    /\ Running("pass") /\ Top.todo # <<>>
    /\ Head(Top.todo) = Watcher
    /\ Len(callStack) < MaxDepth
    /\ callStack' = Append(ReplaceTop([Top EXCEPT !.todo = Tail(@)]), JobFrame("call"))
    /\ UNCHANGED <<target, depsMap, effDeps, created, active, computedFlag, effId, uid,
                   currentEffect, effectStack, queue, isFlushPending, watchKey, watchDeep,
                   oldValue, retVal, notA>>

\* trigger() returns
PassDone ==
    /\ Running("pass") /\ Top.todo = <<>>
    /\ callStack' = Pop
    /\ UNCHANGED <<target, depsMap, effDeps, created, active, computedFlag, effId, uid,
                   currentEffect, effectStack, queue, isFlushPending, watchKey, watchDeep,
                   oldValue, retVal, notA>>

\* job(): const newValue = runner()
JobCall ==
    /\ Running("job") /\ Top.stage = "call"
    /\ IF active[Watcher]
       THEN EnterEffect(Watcher, ReplaceTop(JobFrame("ret")))
       ELSE /\ callStack' = ReplaceTop(JobFrame("ret"))
            /\ UNCHANGED <<depsMap, effDeps, currentEffect, effectStack>>
    /\ retVal' = IF active[Watcher] THEN retVal ELSE Undefined
    /\ UNCHANGED <<target, created, active, computedFlag, effId, uid, queue,
                   isFlushPending, watchKey, watchDeep, oldValue, notA>>

\* job(): if (deep || newValue !== oldValue) { callback(newValue, oldValue); oldValue = newValue }
CallbackInvoked == watchDeep \/ retVal # oldValue

JobCompare ==
    /\ Running("job") /\ Top.stage = "ret"
    /\ IF CallbackInvoked
       THEN /\ callStack' = ReplaceTop(CallbackFrame)
            /\ UNCHANGED retVal
       ELSE /\ callStack' = Pop
            /\ retVal' = Undefined
    /\ UNCHANGED <<target, depsMap, effDeps, created, active, computedFlag, effId, uid,
                   currentEffect, effectStack, queue, isFlushPending, watchKey, watchDeep,
                   oldValue, notA>>

\* the user's callback returns (it touches no reactive state); then oldValue = newValue
CallbackReturn ==
    /\ Running("callback")
    /\ oldValue' = retVal
    /\ retVal' = Undefined
    /\ callStack' = Pop
    /\ UNCHANGED <<target, depsMap, effDeps, created, active, computedFlag, effId, uid,
                   currentEffect, effectStack, queue, isFlushPending, watchKey, watchDeep, notA>>

\* watch(): oldValue = runner()
BaselineReturn ==
    /\ Running("baseline")
    /\ oldValue' = retVal
    /\ retVal' = Undefined
    /\ callStack' = Pop
    /\ UNCHANGED <<target, depsMap, effDeps, created, active, computedFlag, effId, uid,
                   currentEffect, effectStack, queue, isFlushPending, watchKey, watchDeep, notA>>

\* flushJobs(): if (job.active !== false) job()
FlushRunJob ==
    /\ Running("flush") /\ Top.todo # <<>> /\ active[Head(Top.todo)]
    /\ EnterEffect(Head(Top.todo), ReplaceTop([Top EXCEPT !.todo = Tail(@)]))
    /\ UNCHANGED <<target, created, active, computedFlag, effId, uid, queue,
                   isFlushPending, watchKey, watchDeep, oldValue, retVal, notA>>

FlushSkipInactive ==
    /\ Running("flush") /\ Top.todo # <<>> /\ ~active[Head(Top.todo)]
    /\ callStack' = ReplaceTop([Top EXCEPT !.todo = Tail(@)])
    /\ UNCHANGED <<target, depsMap, effDeps, created, active, computedFlag, effId, uid,
                   currentEffect, effectStack, queue, isFlushPending, watchKey, watchDeep,
                   oldValue, retVal, notA>>

\* flushJobs() returns
FlushDone ==
    /\ Running("flush") /\ Top.todo = <<>>
    /\ callStack' = Pop
    /\ UNCHANGED <<target, depsMap, effDeps, created, active, computedFlag, effId, uid,
                   currentEffect, effectStack, queue, isFlushPending, watchKey, watchDeep,
                   oldValue, retVal, notA>>

\* effects and watchers under assignments: everything but the job queue
RNext ==
    \/ \E e \in PlainEffects, c \in BOOLEAN : Effect(e, c)
    \/ \E k \in Keys, i \in BOOLEAN, d \in BOOLEAN : Watch(k, i, d)
    \/ \E k \in Keys, v \in Vals : Set(k, v)
    \/ \E e \in Effects : Stop(e)
    \/ \E k \in Keys : RunRead(k)
    \/ \E k \in Keys, v \in Vals : RunWrite(k, v)
    \/ \E e \in Effects : RunStop(e)
    \/ RunGetter
    \/ RunReturn
    \/ PassRunEffect
    \/ PassSkipInactive
    \/ PassRunScheduler
    \/ PassDone
    \/ JobCall
    \/ JobCompare
    \/ CallbackReturn
    \/ BaselineReturn

\* plain effects with the job queue: queueJob, queueFlush and the flushJobs microtask
FNext ==
    \/ \E e \in PlainEffects : Effect(e, FALSE)
    \/ \E k \in Keys, v \in Vals : Set(k, v)
    \/ \E e \in PlainEffects : Stop(e)
    \/ \E e \in PlainEffects : QueueJob(e)
    \/ FlushJobs
    \/ \E k \in Keys : RunRead(k)
    \/ \E k \in Keys, v \in Vals : RunWrite(k, v)
    \/ \E e \in PlainEffects : RunStop(e)
    \/ \E e \in PlainEffects : RunQueueJob(e)
    \/ RunReturn
    \/ PassRunEffect
    \/ PassSkipInactive
    \/ PassDone
    \/ FlushRunJob
    \/ FlushSkipInactive
    \/ FlushDone

(***************************************************************************)
(* Part B.  AdvancedComponent: performUpdate, diff, patch                  *)
(*                                                                         *)
(* A VNode is [type, props, children]: type is the tag of an element or    *)
(* "TEXT"; props maps the keys present to their values; the children of an *)
(* element are VNodes and the one child of a text VNode is its string.     *)
(* A render-target node is [kind, tag, attrs, listeners, childNodes, text].*)
(* Numbers are written as the strings "1", "2".                            *)
(***************************************************************************)
\* children a VNode of the model may have
MaxChildren == 2
\* calls of performUpdate in one behaviour
MaxUpdates == 1

PropVals == {"1", "2"}
RootTags == {"div", "ul"}

VElem(tag, props, children) == [type |-> tag, props |-> props, children |-> children]
VText(t) == [type |-> "TEXT", props |-> <<>>, children |-> <<t>>]
IsText(v) == v.type = "TEXT"

Prop(k, v) == [x \in {k} |-> v]

\* props over a set of keys, each key absent or with a value
PropsOver(keys) == UNION {[ks -> PropVals] : ks \in SUBSET keys}

LeafVNodes ==
    {VElem("li", Prop("onClick", "1"), <<>>), VText("x"), VText("y")}

ChildLists == UNION {[1..n -> LeafVNodes] : n \in 0..MaxChildren}

RootVNodes ==
    {VElem(t, pr, ch) : t \in RootTags, pr \in PropsOver({"id", "length"}), ch \in ChildLists}

DElem(tag, attrs, listeners, childNodes) ==
    [kind |-> "element", tag |-> tag, attrs |-> attrs, listeners |-> listeners,
     childNodes |-> childNodes, text |-> ""]

DText(t) ==
    [kind |-> "text", tag |-> "#text", attrs |-> <<>>, listeners |-> {}, childNodes |-> <<>>,
     text |-> t]

\* key.startsWith('on'), and key.slice(2).toLowerCase()
IsEventKey(k) == k \in {"onClick"}
EventName(k) == IF k = "onClick" THEN "click" ELSE k

\* props[key] of a plain object: undefined when the key is absent
PropGet(props, k) == IF k \in DOMAIN props THEN props[k] ELSE Undefined

\* updateProps(element, props): on* keys add a listener (addEventListener ignores an
\* undefined listener and a repeated one), every other key is assigned as a property
UpdateProps(el, props) ==
    LET plain == {k \in DOMAIN props : ~IsEventKey(k)}
        events == {k \in DOMAIN props : IsEventKey(k) /\ props[k] # Undefined}
    IN  [el EXCEPT
           !.attrs = [k \in (DOMAIN el.attrs) \cup plain |->
                         IF k \in plain THEN props[k] ELSE el.attrs[k]],
           !.listeners = @ \cup {<<EventName(k), props[k]>> : k \in events}]

\* createElement(vnode) of AdvancedComponent
RECURSIVE CreateElement(_)
CreateElement(v) ==
    IF IsText(v) THEN DText(v.children[1])
    ELSE [UpdateProps(DElem(v.type, <<>>, {}, <<>>), v.props) EXCEPT
            !.childNodes = [i \in 1..Len(v.children) |-> CreateElement(v.children[i])]]

\* diffProps(oldProps, newProps): the object patches, or [] when it has no key
DiffProps(oldProps, newProps) ==
    LET changed == {k \in DOMAIN oldProps : oldProps[k] # PropGet(newProps, k)}
        added == DOMAIN newProps \ DOMAIN oldProps
    IN  [k \in changed \cup added |-> PropGet(newProps, k)]

\* propPatches.length > 0: of an array its length; of the object patches its property
\* named length, which is undefined unless a prop is called length
JsGreaterThanZero(x) == x \in PropVals

PropPatchesLengthPositive(pp) ==
    IF DOMAIN pp = {} THEN FALSE ELSE JsGreaterThanZero(PropGet(pp, "length"))

Max(a, b) == IF a >= b THEN a ELSE b

\* diff(oldVNode, newVNode) and diffChildren(oldChildren, newChildren)
RECURSIVE Diff(_, _)
RECURSIVE DiffChildrenFrom(_, _, _)
DiffChildrenFrom(oc, nc, i) ==
    IF i > Max(Len(oc), Len(nc)) THEN <<>>
    ELSE LET here ==
               IF i > Len(oc) THEN <<[type |-> "INSERT", index |-> i - 1, vnode |-> nc[i]]>>
               ELSE IF i > Len(nc) THEN <<[type |-> "REMOVE", index |-> i - 1]>>
               ELSE LET cp == Diff(oc[i], nc[i]) IN
                    IF Len(cp) > 0
                    THEN <<[type |-> "UPDATE", index |-> i - 1, patches |-> cp]>>
                    ELSE <<>>
         IN  here \o DiffChildrenFrom(oc, nc, i + 1)

DiffChildren(oc, nc) == DiffChildrenFrom(oc, nc, 1)

Diff(old, new) ==
    IF old.type # new.type THEN <<[type |-> "REPLACE", vnode |-> new]>>
    ELSE IF IsText(old) /\ IsText(new)
    THEN IF old.children[1] # new.children[1]
         THEN <<[type |-> "TEXT", text |-> new.children[1]]>>
         ELSE <<>>
    ELSE LET pp == DiffProps(old.props, new.props)
             cp == DiffChildren(old.children, new.children)
         IN  (IF PropPatchesLengthPositive(pp) THEN <<[type |-> "PROPS", props |-> pp]>> ELSE <<>>)
             \o (IF Len(cp) > 0 THEN <<[type |-> "CHILDREN", children |-> cp]>> ELSE <<>>)

\* element.children: the child nodes that are elements; positions of them in childNodes
ElementPositions(el) == SelectSeq([i \in 1..Len(el.childNodes) |-> i],
                                  LAMBDA i : el.childNodes[i].kind = "element")

InsertAt(s, pos, x) == SubSeq(s, 1, pos - 1) \o <<x>> \o SubSeq(s, pos, Len(s))
RemoveAt(s, pos) == SubSeq(s, 1, pos - 1) \o SubSeq(s, pos + 1, Len(s))

\* element.textContent = text
SetTextContent(node, t) ==
    IF node.kind = "text" THEN [node EXCEPT !.text = t]
    ELSE [node EXCEPT !.childNodes = <<DText(t)>>]

\* patch(element, patches) and patchChildren(element, patches): the node that stands
\* where element stood once the patches are applied
RECURSIVE ApplyPatches(_, _)
RECURSIVE PatchChildren(_, _)
ApplyPatch(node, p) ==
    CASE p.type = "REPLACE" -> CreateElement(p.vnode)
      [] p.type = "TEXT" -> SetTextContent(node, p.text)
      [] p.type = "PROPS" -> UpdateProps(node, p.props)
      [] p.type = "CHILDREN" -> PatchChildren(node, p.children)

ApplyPatches(node, ps) ==
    IF ps = <<>> THEN node ELSE ApplyPatches(ApplyPatch(node, Head(ps)), Tail(ps))

PatchChild(el, p) ==
    LET epos == ElementPositions(el)
        exists == p.index + 1 <= Len(epos)
        pos == epos[p.index + 1]
    IN  CASE p.type = "INSERT" ->
                IF ~exists
                THEN [el EXCEPT !.childNodes = Append(@, CreateElement(p.vnode))]
                ELSE [el EXCEPT !.childNodes = InsertAt(@, pos, CreateElement(p.vnode))]
          [] p.type = "REMOVE" ->
                IF exists THEN [el EXCEPT !.childNodes = RemoveAt(@, pos)] ELSE el
          [] p.type = "UPDATE" ->
                IF exists
                THEN [el EXCEPT !.childNodes[pos] = ApplyPatches(@, p.patches)]
                ELSE el

PatchChildren(el, ps) ==
    IF ps = <<>> THEN el ELSE PatchChildren(PatchChild(el, Head(ps)), Tail(ps))

\* patch(this.element, patches) replaces the root through element.parentNode
IsRootReplace(ps) == Len(ps) > 0 /\ ps[1].type = "REPLACE"

\* Part B at rest, for the specifications of the other parts
BFrozen ==
    /\ compVNode = VText("x")
    /\ compElement = DText("x")
    /\ elementAttached = TRUE
    /\ containerChild = DText("x")
    /\ compHasError = FALSE
    /\ updateCount = 0

BInit ==
    /\ compVNode \in RootVNodes
    /\ compElement = CreateElement(compVNode)
    /\ elementAttached = TRUE
    /\ containerChild = compElement
    /\ compHasError = FALSE
    /\ updateCount = 0

\* performUpdate() with render() returning newVNode; the lifecycle hooks are the
\* empty defaults.  A REPLACE of a detached root throws on element.parentNode
\* (null): the catch block calls handleError and this.vnode keeps its value.
PerformUpdate(newVNode) ==
    /\ updateCount < MaxUpdates
    /\ UNCHANGED notB
    /\ LET ps == Diff(compVNode, newVNode) IN
       IF IsRootReplace(ps)
       THEN IF elementAttached
            THEN /\ containerChild' = CreateElement(ps[1].vnode)
                 /\ elementAttached' = FALSE
                 /\ compVNode' = newVNode
                 /\ updateCount' = updateCount + 1
                 /\ UNCHANGED <<compElement, compHasError>>
            ELSE /\ compHasError' = TRUE
                 /\ UNCHANGED <<compVNode, compElement, elementAttached, containerChild,
                                updateCount>>
       ELSE /\ compElement' = ApplyPatches(compElement, ps)
            /\ containerChild' = IF elementAttached THEN compElement' ELSE containerChild
            /\ compVNode' = newVNode
            /\ updateCount' = updateCount + 1
            /\ UNCHANGED <<elementAttached, compHasError>>

BNext == \E v \in RootVNodes : PerformUpdate(v)

(***************************************************************************)
(* Part C.  v1: DOMRenderer, ReactiveSystem, Component, LuaUIRuntime       *)
(*                                                                         *)
(* A VNode is [vid, type, ctype, props, children, text, element]: vid is   *)
(* the identity of the object (mountedComponents is keyed by it), type is  *)
(* a tag, "TEXT" or "COMPONENT", element is the handle stored in           *)
(* vnode.element (0 for null).  A child that is no VNode but a string has  *)
(* type "#prim".  Render-target nodes live in world.dom and are named by   *)
(* their index, the handle; handle 1 is the container.  world.log records  *)
(* the render-target calls and lifecycle hooks of the operation in         *)
(* progress; world.err is set when a call throws.                          *)
(***************************************************************************)
\* operations of user code in one behaviour
MaxOps == 3

Container == 1
NoVNode == [vid |-> 0, type |-> "#none", ctype |-> "", props |-> <<>>, children |-> <<>>,
            text |-> "", element |-> 0]

TNode(type, props, children) ==
    [vid |-> 0, type |-> type, ctype |-> "", props |-> props, children |-> children,
     text |-> "", element |-> 0]
TText(t) == [TNode("TEXT", <<>>, <<>>) EXCEPT !.text = t]
TPrim(t) == [TNode("#prim", <<>>, <<>>) EXCEPT !.text = t]
TComponent(c) == [TNode("COMPONENT", <<>>, <<>>) EXCEPT !.ctype = c]

IsVNode(v) == v.type \notin {"#prim", "#none"}
IsTextVNode(v) == v.type = "TEXT"
IsComponentVNode(v) == v.type = "COMPONENT"

DomNode(kind, tag, text) ==
    [kind |-> kind, tag |-> tag, attrs |-> <<>>, listeners |-> {}, kids |-> <<>>,
     parent |-> 0, text |-> text]

EmptyWorld ==
    [dom |-> <<DomNode("element", "body", "")>>,
     insts |-> <<>>,
     mountedComponents |-> {},
     observers |-> {},
     dependencies |-> {},
     nextVid |-> 1,
     nextFn |-> 1,
     log |-> <<>>,
     hooks |-> <<>>,
     err |-> FALSE]

Throw(w) == [w EXCEPT !.err = TRUE]
Logged(w, op, x) == [w EXCEPT !.log = Append(@, [op |-> op, on |-> x])]

\* ---- the render target ----
DomCreate(w, kind, tag, text) ==
    Logged([w EXCEPT !.dom = Append(@, DomNode(kind, tag, text))],
           IF kind = "text" THEN "createTextNode" ELSE "createElement", Len(w.dom) + 1)

Detached(dom, child) ==
    IF dom[child].parent = 0 THEN dom
    ELSE [dom EXCEPT ![dom[child].parent].kids = SeqRemove(@, child), ![child].parent = 0]

DomAppendChild(w, parent, child) ==
    IF parent = 0 \/ child = 0 THEN Throw(w)
    ELSE LET d == Detached(w.dom, child) IN
         Logged([w EXCEPT !.dom = [d EXCEPT ![parent].kids = Append(@, child),
                                            ![child].parent = parent]],
                "appendChild", child)

DomRemoveChild(w, parent, child) ==
    IF parent = 0 \/ child = 0 \/ w.dom[child].parent # parent THEN Throw(w)
    ELSE Logged([w EXCEPT !.dom = Detached(w.dom, child)], "removeChild", child)

DomReplaceChild(w, parent, new, old) ==
    IF parent = 0 \/ new = 0 \/ old = 0 \/ w.dom[old].parent # parent THEN Throw(w)
    ELSE LET d == Detached(w.dom, new)
             kids == [i \in 1..Len(d[parent].kids) |->
                         IF d[parent].kids[i] = old THEN new ELSE d[parent].kids[i]]
         IN Logged([w EXCEPT !.dom = [d EXCEPT ![parent].kids = kids,
                                               ![new].parent = parent,
                                               ![old].parent = 0]],
                   "replaceChild", old)

DomSetText(w, node, t) ==
    IF node = 0 THEN Throw(w)
    ELSE Logged([w EXCEPT !.dom[node].text = t], "setText", node)

DomSetProperty(w, node, k, val) ==
    IF node = 0 THEN Throw(w)
    ELSE Logged([w EXCEPT !.dom[node].attrs =
                    [x \in DOMAIN @ \cup {k} |-> IF x = k THEN val ELSE @[x]]],
                "setProperty", node)

DomRemoveAttribute(w, node, k) ==
    IF node = 0 THEN Throw(w)
    ELSE Logged([w EXCEPT !.dom[node].attrs = [x \in DOMAIN @ \ {k} |-> @[x]]],
                "removeAttribute", node)

DomAddListener(w, node, k, fn) ==
    IF node = 0 THEN Throw(w)
    ELSE Logged([w EXCEPT !.dom[node].listeners = @ \cup {<<EventName(k), fn>>}],
                "addEventListener", node)

DomRemoveListener(w, node, k, fn) ==
    IF node = 0 THEN Throw(w)
    ELSE Logged([w EXCEPT !.dom[node].listeners = @ \ {<<EventName(k), fn>>}],
                "removeEventListener", node)

\* ---- updateElement(element, oldProps, newProps) ----
\* Object.keys order of the props of the model; `key in element` holds for id only
PropKeyOrder == <<"key", "id", "onClick">>
IsElementProperty(k) == k = "id"
IsSpecialProp(k) == k \in {"key", "ref", "componentType"}

SameProp(old, new, k) ==
    /\ (k \in DOMAIN old) = (k \in DOMAIN new)
    /\ k \in DOMAIN old => old[k] = new[k]

RemoveOldProp(w, el, old, new, k) ==
    IF w.err \/ k \notin DOMAIN old \/ k \in DOMAIN new THEN w
    ELSE IF IsEventKey(k) THEN DomRemoveListener(w, el, k, old[k])
    ELSE IF IsElementProperty(k) THEN DomSetProperty(w, el, k, "")
    ELSE DomRemoveAttribute(w, el, k)

SetNewProp(w, el, old, new, k) ==
    IF w.err \/ k \notin DOMAIN new \/ IsSpecialProp(k) \/ SameProp(old, new, k) THEN w
    ELSE IF IsEventKey(k)
    THEN LET w1 == IF k \in DOMAIN old THEN DomRemoveListener(w, el, k, old[k]) ELSE w
         IN  IF w1.err THEN w1 ELSE DomAddListener(w1, el, k, new[k])
    ELSE DomSetProperty(w, el, k, new[k])

RECURSIVE RemoveOldProps(_, _, _, _, _)
RemoveOldProps(w, el, old, new, keys) ==
    IF keys = <<>> THEN w
    ELSE RemoveOldProps(RemoveOldProp(w, el, old, new, Head(keys)), el, old, new, Tail(keys))

RECURSIVE SetNewProps(_, _, _, _, _)
SetNewProps(w, el, old, new, keys) ==
    IF keys = <<>> THEN w
    ELSE SetNewProps(SetNewProp(w, el, old, new, Head(keys)), el, old, new, Tail(keys))

UpdateElement(w, el, old, new) ==
    SetNewProps(RemoveOldProps(w, el, old, new, PropKeyOrder), el, old, new, PropKeyOrder)

\* ---- Component and ReactiveSystem ----
\* The registered component classes of the model:
\*   Button  render() { return h('button', {onClick: () => ...}, [this.state.label]) }
\*   Label   render() { return h('span', {}, [this.state.label]) }
\*   Box     render() { return h('div', {}, [component('Button')]) }
\*   Toggle  render() { return this.state.label === 'x' ? h('span', {}, ['x'])
\*                                                      : h('p', {}, [this.state.label]) }
Classes == {"Button", "Label", "Box", "Toggle"}
Labels == {"x", "y"}
StateReads(c) == IF c = "Box" THEN {} ELSE {"label"}

RenderTemplate(c, state) ==
    CASE c = "Button" -> TNode("button", [onClick |-> 0], <<TPrim(state.label)>>)
      [] c = "Label" -> TNode("span", <<>>, <<TPrim(state.label)>>)
      [] c = "Box" -> TNode("div", <<>>, <<TComponent("Button")>>)
      [] c = "Toggle" -> TNode(IF state.label = "x" THEN "span" ELSE "p", <<>>,
                               <<TPrim(state.label)>>)

\* new VNode(...): every object gets its own identity, every function
\* expression evaluated while the tree is built is a new closure
HasHandler(t) == "onClick" \in DOMAIN t.props

VNodeBuilt(rc, w, t) ==
    [w |-> rc.w,
     v |-> [t EXCEPT !.vid = w.nextVid,
                     !.props = IF HasHandler(t) THEN [t.props EXCEPT !["onClick"] = w.nextFn]
                               ELSE t.props,
                     !.children = rc.vs]]

VNodeAdded(r, acc) == [w |-> r.w, vs |-> Append(acc, r.v)]

RECURSIVE NewVNode(_, _)
RECURSIVE NewVNodes(_, _)
NewVNode(w, t) ==
    IF ~IsVNode(t) THEN [w |-> w, v |-> t]
    ELSE VNodeBuilt(NewVNodes([w |-> [w EXCEPT !.nextVid = @ + 1,
                                               !.nextFn = IF HasHandler(t) THEN @ + 1 ELSE @],
                               vs |-> <<>>],
                              t.children),
                    w, t)
NewVNodes(st, ts) ==
    IF ts = <<>> THEN st
    ELSE NewVNodes(VNodeAdded(NewVNode(st.w, Head(ts)), st.vs), Tail(ts))

\* new componentClass(props): Component's constructor
NewInstance(w, c, props) ==
    [w EXCEPT !.insts = Append(@, [class |-> c, props |-> props, state |-> [label |-> "x"],
                                    element |-> 0, vnode |-> NoVNode, mounted |-> FALSE,
                                    renders |-> 0, willUnmount |-> 0,
                                    hookDetached |-> FALSE])]

DepKey(i, k) == <<i, k>>

TrackDependency(w, i, k) ==
    [w EXCEPT !.dependencies = @ \cup {[component |-> i, dep |-> DepKey(i, k)]},
              !.observers = @ \cup {[dep |-> DepKey(i, k), component |-> i]}]

RECURSIVE TrackAll(_, _, _)
TrackAll(w, i, ks) ==
    IF ks = {} THEN w
    ELSE LET k == CHOOSE x \in ks : TRUE IN TrackAll(TrackDependency(w, i, k), i, ks \ {k})

\* instance.render(): the state proxy's get trap tracks each key read
Render(w, i) ==
    NewVNode(TrackAll([w EXCEPT !.insts[i].renders = @ + 1], i, StateReads(w.insts[i].class)),
             RenderTemplate(w.insts[i].class, w.insts[i].state))

CleanupComponent(w, i) ==
    LET deps == {d.dep : d \in {x \in w.dependencies : x.component = i}} IN
    [w EXCEPT !.observers = {o \in @ : ~(o.component = i /\ o.dep \in deps)},
              !.dependencies = {d \in @ : d.component # i}]

\* ---- DOMRenderer ----
\* Each operation returns [w, v] (and el where it yields a handle): the
\* world after it and the VNode it was given, with the fields it assigned.
MapGet(m, vid) == {p[2] : p \in {q \in m : q[1] = vid}}
MapDelete(m, vid) == {q \in m : q[1] # vid}
MapSet(m, vid, i) == MapDelete(m, vid) \cup {<<vid, i>>}

ParentOf(w, el) == IF el = 0 THEN 0 ELSE w.dom[el].parent

\* el is the container or a descendant of it
RECURSIVE Connected(_, _)
Connected(w, el) ==
    IF el = 0 THEN FALSE ELSE IF el = Container THEN TRUE ELSE Connected(w, ParentOf(w, el))
NewHandle(w) == Len(w.dom) + 1

TextNodeCreated(w, c) == [w |-> DomCreate(w, "text", "", c.text), v |-> c, el |-> NewHandle(w)]

ElementCreated(rc, v, el) ==
    [w |-> rc.w, v |-> [v EXCEPT !.element = el, !.children = rc.vs], el |-> el]

ChildAppended(r, el, acc) ==
    [w |-> IF r.w.err THEN r.w ELSE DomAppendChild(r.w, el, r.el), vs |-> Append(acc, r.v)]

ComponentCreated(rc, v, i) ==
    IF rc.w.err THEN [w |-> rc.w, v |-> v, el |-> 0]
    ELSE [w |-> [rc.w EXCEPT !.insts[i].element = rc.el,
                             !.insts[i].vnode = rc.v,
                             !.mountedComponents = MapSet(@, v.vid, i)],
          v |-> [v EXCEPT !.element = rc.el],
          el |-> rc.el]

RECURSIVE RendererCreateElement(_, _)
RECURSIVE RendererCreateChildren(_, _, _)
RECURSIVE RendererCreateComponent(_, _)
RECURSIVE RendererPatch(_, _, _, _)
RECURSIVE RendererUpdateComponent(_, _, _)
RECURSIVE RendererUpdateChildren(_, _, _, _, _, _)
RECURSIVE RendererUnmount(_, _)
RECURSIVE RendererUnmountChildren(_, _)

RendererCreateElement(w, v) ==
    IF w.err THEN [w |-> w, v |-> v, el |-> 0]
    ELSE IF IsTextVNode(v) THEN TextNodeCreated(w, v)
    ELSE IF IsComponentVNode(v) THEN RendererCreateComponent(w, v)
    ELSE ElementCreated(
             RendererCreateChildren(
                 [w |-> UpdateElement(DomCreate(w, "element", v.type, ""), NewHandle(w),
                                      <<>>, v.props),
                  vs |-> <<>>],
                 NewHandle(w), v.children),
             v, NewHandle(w))

\* createElement of a child VNode, createTextNode(String(child)) of any other child
CreateChild(w, c) ==
    IF IsVNode(c) THEN RendererCreateElement(w, c) ELSE TextNodeCreated(w, c)

RendererCreateChildren(st, el, cs) ==
    IF cs = <<>> \/ st.w.err THEN [w |-> st.w, vs |-> st.vs \o cs]
    ELSE RendererCreateChildren(ChildAppended(CreateChild(st.w, Head(cs)), el, st.vs),
                                el, Tail(cs))

CreateRendered(rr) == RendererCreateElement(rr.w, rr.v)

RendererCreateComponent(w, v) ==
    ComponentCreated(CreateRendered(Render(NewInstance(w, v.ctype, v.props),
                                           Len(w.insts) + 1)),
                     v, Len(w.insts) + 1)

IsDifferentNodeType(old, new) ==
    \/ old.type # new.type
    \/ IsComponentVNode(old) /\ IsComponentVNode(new) /\ old.ctype # new.ctype

\* the Component branch of unmount: componentWillUnmount, mountedComponents.delete
\* instance.componentWillUnmount(); hookDetached records a call made when the
\* element of the instance was no longer under
\* the container; hooks lists the instances in the order of the calls
WillUnmount(w, i) ==
    [w EXCEPT !.insts[i].willUnmount = @ + 1,
              !.hooks = Append(@, i),
              !.insts[i].hookDetached = @ \/ ~Connected(w, w.insts[i].element)]

UnmountInstance(w, v) ==
    LET found == IF IsComponentVNode(v) THEN MapGet(w.mountedComponents, v.vid) ELSE {} IN
    IF found = {} THEN w
    ELSE [WillUnmount(w, CHOOSE x \in found : TRUE)
              EXCEPT !.mountedComponents = MapDelete(@, v.vid)]

RendererUnmount(w, v) == RendererUnmountChildren(UnmountInstance(w, v), v.children)

RendererUnmountChildren(w, cs) ==
    IF cs = <<>> THEN w
    ELSE RendererUnmountChildren(IF IsVNode(Head(cs)) THEN RendererUnmount(w, Head(cs)) ELSE w,
                                 Tail(cs))

\* patch, old absent: container.appendChild(createElement(new))
Appended(r, container) ==
    [w |-> IF r.w.err THEN r.w ELSE DomAppendChild(r.w, container, r.el), v |-> r.v]

\* patch, new absent: after unmount(old), detach old.element
Detach(w, old) ==
    [w |-> IF ParentOf(w, old.element) # 0
           THEN DomRemoveChild(w, ParentOf(w, old.element), old.element) ELSE w,
     v |-> NoVNode]

\* patch, different node types: replaceChild(newElement, old.element), then unmount(old)
ReplaceOld(r, old) ==
    IF ~r.w.err /\ ParentOf(r.w, old.element) # 0
    THEN DomReplaceChild(r.w, ParentOf(r.w, old.element), r.el, old.element)
    ELSE r.w

UnmountUnlessThrown(w, old) == IF w.err THEN w ELSE RendererUnmount(w, old)

Replaced(r, old) == [w |-> UnmountUnlessThrown(ReplaceOld(r, old), old), v |-> r.v]

ElementPatched(rc, old, new) ==
    [w |-> rc.w, v |-> [new EXCEPT !.element = old.element, !.children = rc.vs]]

RendererPatch(w, container, old, new) ==
    IF w.err THEN [w |-> w, v |-> NoVNode]
    ELSE IF ~IsVNode(old) THEN Appended(RendererCreateElement(w, new), container)
    ELSE IF ~IsVNode(new) THEN Detach(RendererUnmount(w, old), old)
    ELSE IF IsDifferentNodeType(old, new) THEN Replaced(RendererCreateElement(w, new), old)
    ELSE IF IsTextVNode(new)
    THEN [w |-> IF old.text # new.text THEN DomSetText(w, old.element, new.text) ELSE w,
          v |-> new]
    ELSE IF IsComponentVNode(new) THEN RendererUpdateComponent(w, old, new)
    ELSE IF old.element = 0 THEN [w |-> Throw(w), v |-> new]
    ELSE ElementPatched(
             RendererUpdateChildren(
                 [w |-> UpdateElement(w, old.element, old.props, new.props), vs |-> <<>>],
                 old.element, old.children, new.children, w.dom[old.element].kids, 1),
             old, new)

PatchRendered(rr, old) == RendererPatch(rr.w, 0, old, rr.v)

ComponentUpdated(rp, old, new, i) ==
    IF rp.w.err THEN [w |-> rp.w, v |-> new]
    ELSE [w |-> [rp.w EXCEPT !.insts[i].vnode = rp.v,
                             !.mountedComponents = MapSet(MapDelete(@, old.vid), new.vid, i)],
          v |-> [new EXCEPT !.element = old.element]]

WithoutHandle(r) == [w |-> r.w, v |-> r.v]

\* instance.props = newVNode.props, then instance.render() and the patch of
\* the tree it rendered before
UpdateFound(w, old, new, i) ==
    ComponentUpdated(PatchRendered(Render([w EXCEPT !.insts[i].props = new.props], i),
                                   w.insts[i].vnode),
                     old, new, i)

\* updateComponent that never finds the instance of the old node
UpdateByCreating(w, old, new) == WithoutHandle(RendererCreateComponent(w, new))

RendererUpdateComponent(w, old, new) ==
    IF MapGet(w.mountedComponents, old.vid) = {}
    THEN WithoutHandle(RendererCreateComponent(w, new))
    ELSE UpdateFound(w, old, new, CHOOSE x \in MapGet(w.mountedComponents, old.vid) : TRUE)

\* updateChildren, old child only: unmount it and remove childNodes[i]
ChildRemoved(w, el, childNodes, i) ==
    [w |-> IF i <= Len(childNodes) THEN DomRemoveChild(w, el, childNodes[i]) ELSE w,
     v |-> NoVNode]

\* updateChildren, both children strings
StringChildUpdated(w, old, new, childNodes, i) ==
    [w |-> IF old.text # new.text /\ i <= Len(childNodes)
           THEN DomSetText(w, childNodes[i], new.text) ELSE w,
     v |-> new]

\* updateChildren, one child a VNode and the other a string
UnmountOldChild(r, old) ==
    IF ~r.w.err /\ IsVNode(old) THEN RendererUnmount(r.w, old) ELSE r.w

ReplaceNode(w, newEl, el, childNodes, i) ==
    IF ~w.err /\ i <= Len(childNodes) THEN DomReplaceChild(w, el, newEl, childNodes[i]) ELSE w

ChildReplaced(r, old, el, childNodes, i) ==
    [w |-> ReplaceNode(UnmountOldChild(r, old), r.el, el, childNodes, i), v |-> r.v]

\* the body of the loop of updateChildren at index i
UpdateChild(w, el, oc, nc, childNodes, i) ==
    IF i > Len(oc) THEN Appended(CreateChild(w, nc[i]), el)
    ELSE IF i > Len(nc)
    THEN ChildRemoved(IF IsVNode(oc[i]) THEN RendererUnmount(w, oc[i]) ELSE w,
                      el, childNodes, i)
    ELSE IF IsVNode(oc[i]) /\ IsVNode(nc[i]) THEN RendererPatch(w, el, oc[i], nc[i])
    ELSE IF ~IsVNode(oc[i]) /\ ~IsVNode(nc[i])
    THEN StringChildUpdated(w, oc[i], nc[i], childNodes, i)
    ELSE ChildReplaced(CreateChild(w, nc[i]), oc[i], el, childNodes, i)

ChildUpdated(r, acc, kept) == [w |-> r.w, vs |-> IF kept THEN Append(acc, r.v) ELSE acc]

\* updateChildren from index i on; childNodes is the snapshot taken before
\* the loop.  The key maps the method builds first are never read.
RendererUpdateChildren(st, el, oc, nc, childNodes, i) ==
    IF st.w.err \/ i > Max(Len(oc), Len(nc))
    THEN [w |-> st.w, vs |-> st.vs \o SubSeq(nc, Len(st.vs) + 1, Len(nc))]
    ELSE RendererUpdateChildren(
             ChildUpdated(UpdateChild(st.w, el, oc, nc, childNodes, i), st.vs, i <= Len(nc)),
             el, oc, nc, childNodes, i + 1)

\* ---- LuaUIRuntime (v1) and the operations user code calls ----
\* trees user code builds with h(), text() and component()
ListKeys == {"k1", "k2", "k3"}
KeyOrders == {p \in [1..3 -> ListKeys] : \A i, j \in 1..3 : i # j => p[i] # p[j]}
KeyedList(p) ==
    TNode("ul", <<>>, [i \in 1..3 |-> TNode("li", [key |-> p[i]], <<TPrim(p[i])>>)])
UserTrees ==
    {KeyedList(p) : p \in KeyOrders}
        \cup {TNode("div", [id |-> "1", onClick |-> 0], <<TText("x")>>),
              TNode("div", [id |-> "2"], <<TText("y")>>)}
        \cup {TComponent(c) : c \in Classes}
        \cup {[TComponent("Label") EXCEPT !.props = [id |-> "2"]]}

\* the component instances a tree holds: those of its Component nodes and,
\* through each instance's rendered tree, the ones nested in them
RECURSIVE InstancesUnder(_, _)
InstancesUnder(w, v) ==
    IF ~IsVNode(v) THEN {}
    ELSE LET own == IF IsComponentVNode(v) THEN MapGet(w.mountedComponents, v.vid) ELSE {}
         IN own \cup UNION {InstancesUnder(w, w.insts[i].vnode) : i \in own}
                \cup UNION {InstancesUnder(w, v.children[k]) : k \in DOMAIN v.children}

Fresh(w) == [w EXCEPT !.log = <<>>, !.hooks = <<>>, !.err = FALSE]

CInit ==
    /\ cWorld = EmptyWorld
    /\ cTree = NoVNode
    /\ cInstances = {}
    /\ cMountedApps = 0
    /\ cLast = [op |-> "none", old |-> NoVNode, gone |-> {}]
    /\ cOps = 0

\* tree = LuaUI.renderer.patch(container, tree, new); r is what patch did
Patched(r, op) ==
    /\ cOps' = cOps + 1
    /\ cWorld' = r.w
    /\ cTree' = IF r.w.err THEN cTree ELSE r.v
    /\ cLast' = [op |-> op, old |-> cTree,
                 gone |-> cLast.gone \cup
                     IF r.w.err THEN {}
                     ELSE InstancesUnder(cWorld, cTree) \ InstancesUnder(r.w, r.v)]
    /\ UNCHANGED <<cInstances, cMountedApps, notC>>

PatchBuilt(n) == RendererPatch(n.w, Container, cTree, n.v)

PatchNew(t) ==
    /\ cOps < MaxOps
    /\ Patched(PatchBuilt(NewVNode(Fresh(cWorld), t)), "patch")

PatchSame ==
    /\ cOps < MaxOps
    /\ IsVNode(cTree)
    /\ Patched(RendererPatch(Fresh(cWorld), Container, cTree, cTree), "patchSame")

PatchNull ==
    /\ cOps < MaxOps
    /\ IsVNode(cTree)
    /\ Patched(RendererPatch(Fresh(cWorld), Container, cTree, NoVNode), "patchNull")

\* LuaUI.mount(componentClass, {}, container); rc is what createElement did
\* with the tree instance i rendered
Mounted(rc, i) ==
    /\ cOps' = cOps + 1
    /\ cWorld' = [DomAppendChild(rc.w, Container, rc.el) EXCEPT !.insts[i].element = rc.el,
                                                                !.insts[i].vnode = rc.v,
                                                                !.insts[i].mounted = TRUE]
    /\ cInstances' = cInstances \cup {<<i, i>>}
    /\ cMountedApps' = i
    /\ cLast' = [op |-> "mount", old |-> NoVNode, gone |-> cLast.gone]
    /\ UNCHANGED <<cTree, notC>>

RuntimeMount(c) ==
    /\ cOps < MaxOps
    /\ Mounted(CreateRendered(Render(NewInstance(Fresh(cWorld), c, <<>>),
                                     Len(cWorld.insts) + 1)),
               Len(cWorld.insts) + 1)

\* instance.setState({label: l}) and the update() it leads to: render, and
\* patch(this.element.parentNode, this.vnode, newVNode) when there is a parent
UpdatePatched(r, i) == IF r.w.err THEN r.w ELSE [r.w EXCEPT !.insts[i].vnode = r.v]

UpdateRendered(rr, i) ==
    IF ParentOf(rr.w, rr.w.insts[i].element) = 0 THEN rr.w
    ELSE UpdatePatched(RendererPatch(rr.w, ParentOf(rr.w, rr.w.insts[i].element),
                                     rr.w.insts[i].vnode, rr.v),
                       i)

Update(w, i) ==
    IF ~w.insts[i].mounted \/ w.insts[i].element = 0 THEN w
    ELSE UpdateRendered(Render(w, i), i)

UpdateOf(i, l) ==
    /\ cOps < MaxOps
    /\ cOps' = cOps + 1
    /\ cWorld' = Update([Fresh(cWorld) EXCEPT !.insts[i].state.label = l], i)
    /\ cLast' = [op |-> "update", old |-> cWorld.insts[i].vnode, gone |-> cLast.gone]
    /\ UNCHANGED <<cTree, cInstances, cMountedApps, notC>>

SetStateAndUpdate(l) ==
    /\ cMountedApps # 0
    /\ \E i \in MapGet(cInstances, cMountedApps) : UpdateOf(i, l)

\* LuaUI.unmount(container)
RemoveInstanceElement(w, i) ==
    IF ParentOf(w, w.insts[i].element) # 0
    THEN DomRemoveChild(w, ParentOf(w, w.insts[i].element), w.insts[i].element)
    ELSE w

Unmounted(i) ==
    /\ cWorld' = [RemoveInstanceElement(
                      CleanupComponent(WillUnmount(Fresh(cWorld), i), i),
                      i)
                  EXCEPT !.insts[i].mounted = FALSE]
    /\ cInstances' = MapDelete(cInstances, cMountedApps)
    /\ cMountedApps' = 0
    /\ cLast' = [op |-> "unmount", old |-> cWorld.insts[i].vnode,
                 gone |-> cLast.gone \cup {i}
                     \cup InstancesUnder(cWorld, cWorld.insts[i].vnode)]

RuntimeUnmount ==
    /\ cOps < MaxOps
    /\ cOps' = cOps + 1
    /\ IF cMountedApps = 0 \/ MapGet(cInstances, cMountedApps) = {}
       THEN /\ cWorld' = Fresh(cWorld)
            /\ cLast' = [op |-> "unmount", old |-> NoVNode, gone |-> cLast.gone]
            /\ UNCHANGED <<cInstances, cMountedApps>>
       ELSE Unmounted(CHOOSE x \in MapGet(cInstances, cMountedApps) : TRUE)
    /\ UNCHANGED <<cTree, notC>>

CNext ==
    \/ \E t \in UserTrees : PatchNew(t)
    \/ PatchSame
    \/ PatchNull
    \/ \E c \in Classes : RuntimeMount(c)
    \/ \E l \in Labels : SetStateAndUpdate(l)
    \/ RuntimeUnmount

(***************************************************************************)
(* Part D.  LuaUIRuntime.mount, unmount, processLuaUIElement (luaui.js)    *)
(*                                                                         *)
(* A container holds a sequence of items: the source text of a <luaui>     *)
(* tag, the element tree mounted for an instance, or the diagnostic        *)
(* displayError builds.  A call of mount is given the step at which the    *)
(* component makes it throw, if any.                                       *)
(***************************************************************************)
\* calls of the runtime in one behaviour
MaxCalls == 3

RuntimeContainers == {"luaui", "div"}
TagName(c) == IF c = "luaui" THEN "LUAUI" ELSE "DIV"

MountSteps == <<"lookup", "constructor", "render", "createElement", "attach",
                "componentDidMount">>
StepNo(s) == CHOOSE n \in DOMAIN MountSteps : MountSteps[n] = s
Failures == {MountSteps[n] : n \in DOMAIN MountSteps}
\* mount, failing at step fail, has gone through step s
Passes(fail, s) == fail = "none" \/ StepNo(s) < StepNo(fail)

Item(kind, i) == [kind |-> kind, inst |-> i]

\* container.innerHTML = '' (a <luaui> tag only), then container.appendChild(x)
Attach(content, c, x) == IF TagName(c) = "LUAUI" THEN <<x>> ELSE Append(content, x)

\* the container after mount: the emptying of a <luaui> tag comes after
\* createElement and before appendChild
MountedContent(content, c, i, fail) ==
    IF Passes(fail, "attach") THEN Attach(content, c, Item("tree", i))
    ELSE IF Passes(fail, "createElement") /\ TagName(c) = "LUAUI" THEN <<>>
    ELSE content

MountedInsts(insts, fail) ==
    IF Passes(fail, "constructor")
    THEN Append(insts, [isMounted |-> TRUE, hasElement |-> Passes(fail, "attach"),
                        cleaned |-> FALSE, willUnmount |-> 0])
    ELSE insts

\* instances.set(appId, instance) and mountedApps.set(container, appId) come
\* before the call of componentDidMount
MountedInstances(m, i, fail) == IF Passes(fail, "attach") THEN MapSet(m, i, i) ELSE m
MountedApps(m, c, i, fail) == IF Passes(fail, "attach") THEN MapSet(m, c, i) ELSE m

\* the catch block of mount: performance.end, logger.error, throw error
MountOutcome(op, c, i, fail) ==
    [op |-> op, container |-> c, failedAt |-> fail,
     inst |-> IF Passes(fail, "constructor") THEN i ELSE 0,
     threw |-> fail # "none", rethrown |-> fail # "none"]

\* displayError(container, error)
DisplayError(content, c) == Attach(content, c, Item("diagnostic", 0))

DInit ==
    /\ dContainers = [c \in RuntimeContainers |->
                         IF c = "luaui" THEN <<Item("source", 0)>> ELSE <<>>]
    /\ dInsts = <<>>
    /\ dInstances = {}
    /\ dMountedApps = {}
    /\ dOutcome = [op |-> "none", container |-> "div", failedAt |-> "none", inst |-> 0,
                   threw |-> FALSE, rethrown |-> FALSE]
    /\ dCalls = 0

\* LuaUI.mount(componentClass, {}, container), called by user code
Mount(c, fail) ==
    /\ dCalls < MaxCalls
    /\ dCalls' = dCalls + 1
    /\ dContainers' = [dContainers EXCEPT ![c] = MountedContent(@, c, Len(dInsts) + 1, fail)]
    /\ dInsts' = MountedInsts(dInsts, fail)
    /\ dInstances' = MountedInstances(dInstances, Len(dInsts) + 1, fail)
    /\ dMountedApps' = MountedApps(dMountedApps, c, Len(dInsts) + 1, fail)
    /\ dOutcome' = MountOutcome("mount", c, Len(dInsts) + 1, fail)
    /\ UNCHANGED notD

\* processLuaUIElement(element): compileAndMount(source, element), and on
\* any error displayError(element, error)
ProcessLuaUIElement(fail) ==
    /\ dCalls < MaxCalls
    /\ dCalls' = dCalls + 1
    /\ dContainers' =
           [dContainers EXCEPT !["luaui"] =
               IF fail = "none" THEN MountedContent(@, "luaui", Len(dInsts) + 1, fail)
               ELSE DisplayError(MountedContent(@, "luaui", Len(dInsts) + 1, fail), "luaui")]
    /\ dInsts' = MountedInsts(dInsts, fail)
    /\ dInstances' = MountedInstances(dInstances, Len(dInsts) + 1, fail)
    /\ dMountedApps' = MountedApps(dMountedApps, "luaui", Len(dInsts) + 1, fail)
    /\ dOutcome' = MountOutcome("process", "luaui", Len(dInsts) + 1, fail)
    /\ UNCHANGED notD

\* instance.componentWillUnmount(): AdvancedComponent defines the method, so
\* every instance has it
WillUnmountCalled(inst) == [inst EXCEPT !.willUnmount = @ + 1]

\* instance.cleanup(): watchers and effects are stopped, componentWillUnmount
\* is called, isUnmounting = true
ComponentCleanup(inst) == [WillUnmountCalled(inst) EXCEPT !.cleaned = TRUE]

\* LuaUI.unmount(container)
RemoveTree(content, i) == SelectSeq(content, LAMBDA x : x # Item("tree", i))

UnmountApp(c) ==
    LET appId == CHOOSE a \in MapGet(dMountedApps, c) : TRUE
        found == MapGet(dInstances, appId)
        i == CHOOSE x \in found : TRUE
    IN IF found = {} THEN UNCHANGED <<dContainers, dInsts, dInstances, dMountedApps>>
       ELSE /\ dInsts' = [dInsts EXCEPT ![i] = [ComponentCleanup(WillUnmountCalled(@))
                                                    EXCEPT !.isMounted = FALSE]]
            /\ dContainers' = [x \in RuntimeContainers |-> RemoveTree(dContainers[x], i)]
            /\ dInstances' = MapDelete(dInstances, appId)
            /\ dMountedApps' = MapDelete(dMountedApps, c)

Unmount(c) ==
    /\ dCalls < MaxCalls
    /\ dCalls' = dCalls + 1
    /\ IF MapGet(dMountedApps, c) = {}
       THEN UNCHANGED <<dContainers, dInsts, dInstances, dMountedApps>>
       ELSE UnmountApp(c)
    /\ dOutcome' = [op |-> "unmount", container |-> c, failedAt |-> "none", inst |-> 0,
                    threw |-> FALSE, rethrown |-> FALSE]
    /\ UNCHANGED notD

DNext ==
    \/ \E c \in RuntimeContainers, fail \in Failures \cup {"none"} : Mount(c, fail)
    \/ \E fail \in Failures \cup {"none"} : ProcessLuaUIElement(fail)
    \/ \E c \in RuntimeContainers : Unmount(c)

(***************************************************************************)
(* Part E.  v1 ReactiveSystem: triggerUpdate, scheduleUpdate, flushUpdates *)
(*          and Component.update (src/unnamed/part_000)                    *)
(*                                                                         *)
(* Each component owns one state proxy, created by createState(initial,    *)
(* component): every read through it tracks that component, whoever reads. *)
(* The observer set of a key therefore holds its owner or nothing, and     *)
(* uObservers is the set of <<component, key>> pairs whose set holds it.   *)
(* What update() does to the render target is Part C's; here render() is   *)
(* the keys it reads, the assignment it makes (if any) and whether it      *)
(* throws.                                                                 *)
(***************************************************************************)
\* assignments made in one behaviour
MaxAssigns == 3

Comps == {"A", "B"}
UKeys == {"k1", "k2"}
UVals == {"x", "y"}
NoWrite == [c |-> "none", k |-> "none", v |-> "none"]
Writes == [c : Comps, k : UKeys, v : UVals]

Scheduler(q, upd, mt) == [queue |-> q, isUpdating |-> upd, microtasks |-> mt]
CurrentScheduler == Scheduler(updateQueue, isUpdating, uMicrotasks)

\* updateQueue.add(component); as an array push it would be QueueAppend
QueueAppend(q, c) == Append(q, c)
QueueAdd(q, c) == SetAdd(q, c)

ScheduleUpdate(rs, c) ==
    Scheduler(QueueAdd(rs.queue, c), TRUE,
              IF rs.isUpdating THEN rs.microtasks ELSE rs.microtasks + 1)

\* the set trap: the value is stored and triggerUpdate runs when it changed
Notifies(obs, w) == w # NoWrite /\ uState[w.c][w.k] # w.v /\ <<w.c, w.k>> \in obs

TriggerUpdate(rs, obs, w) == IF Notifies(obs, w) THEN ScheduleUpdate(rs, w.c) ELSE rs

Stored(st, w) == IF w = NoWrite THEN st ELSE [st EXCEPT ![w.c][w.k] = w.v]

Marked(dirty, obs, w) == IF Notifies(obs, w) THEN dirty \cup {w.c} ELSE dirty

NoFlush == [active |-> FALSE, todo |-> <<>>, due |-> {}, escaped |-> FALSE, skipped |-> <<>>]

UFrozen ==
    /\ uState = [c \in Comps |-> [k \in UKeys |-> "x"]]
    /\ uObservers = {}
    /\ uMounted = [c \in Comps |-> TRUE]
    /\ updateQueue = <<>>
    /\ isUpdating = FALSE
    /\ uMicrotasks = 0
    /\ uFlush = NoFlush
    /\ uDirty = {}
    /\ uCalls = [c \in Comps |-> 0]
    /\ uSteps = 0

\* after the components were constructed and first rendered: each has read
\* some of its keys, and is mounted or not
UInit ==
    /\ uState = [c \in Comps |-> [k \in UKeys |-> "x"]]
    /\ uObservers \in SUBSET (Comps \X UKeys)
    /\ uMounted \in [Comps -> BOOLEAN]
    /\ updateQueue = <<>>
    /\ isUpdating = FALSE
    /\ uMicrotasks = 0
    /\ uFlush = NoFlush
    /\ uDirty = {}
    /\ uCalls = [c \in Comps |-> 0]
    /\ uSteps = 0

Scheduled(rs) ==
    /\ updateQueue' = rs.queue
    /\ isUpdating' = rs.isUpdating
    /\ uMicrotasks' = rs.microtasks

\* component.state[k] = v in synchronous user code, outside any flush
Assign(w) ==
    /\ ~uFlush.active
    /\ uSteps < MaxAssigns
    /\ uSteps' = uSteps + 1
    /\ uState' = Stored(uState, w)
    /\ Scheduled(TriggerUpdate(CurrentScheduler, uObservers, w))
    /\ uDirty' = Marked(uDirty, uObservers, w)
    /\ UNCHANGED <<uObservers, uMounted, uFlush, uCalls, notE>>

\* the microtask runs flushUpdates(): snapshot, clear, isUpdating = false
FlushUpdates ==
    /\ ~uFlush.active
    /\ uMicrotasks > 0
    /\ uMicrotasks' = uMicrotasks - 1
    /\ uFlush' = [NoFlush EXCEPT !.active = TRUE, !.todo = updateQueue, !.due = uDirty]
    /\ updateQueue' = <<>>
    /\ isUpdating' = FALSE
    /\ uDirty' = {}
    /\ uCalls' = [c \in Comps |-> 0]
    /\ UNCHANGED <<uState, uObservers, uMounted, uSteps, notE>>

\* flushUpdates(): component.update() of the next component of the snapshot.
\* A mounted component renders: it reads the keys in reads, makes the
\* assignment w (render or a lifecycle method assigning state), and throws
\* or not.  Nothing in update() or flushUpdates() catches.
Tracked(obs, c, reads) == obs \cup ({c} \X reads)

ComponentUpdate(reads, w, throws) ==
    /\ uFlush.active
    /\ uFlush.todo # <<>>
    /\ uMounted[Head(uFlush.todo)] \/ (reads = {} /\ w = NoWrite /\ ~throws)
    /\ w # NoWrite => uSteps < MaxAssigns
    /\ uSteps' = IF w = NoWrite THEN uSteps ELSE uSteps + 1
    /\ uCalls' = [uCalls EXCEPT ![Head(uFlush.todo)] = @ + 1]
    /\ uObservers' = Tracked(uObservers, Head(uFlush.todo), reads)
    /\ uState' = Stored(uState, w)
    /\ Scheduled(TriggerUpdate(CurrentScheduler, uObservers', w))
    /\ uDirty' = Marked(uDirty, uObservers', w)
    /\ uFlush' = IF throws
                 THEN [uFlush EXCEPT !.active = FALSE, !.todo = <<>>, !.escaped = TRUE,
                                     !.skipped = Tail(uFlush.todo)]
                 ELSE [uFlush EXCEPT !.todo = Tail(@)]
    /\ UNCHANGED <<uMounted, notE>>

\* flushUpdates() returns
FlushReturn ==
    /\ uFlush.active
    /\ uFlush.todo = <<>>
    /\ uFlush' = [uFlush EXCEPT !.active = FALSE]
    /\ UNCHANGED <<uState, uObservers, uMounted, updateQueue, isUpdating, uMicrotasks,
                   uDirty, uCalls, uSteps, notE>>

\* components whose render and lifecycle methods return normally
UNext ==
    \/ \E w \in Writes : Assign(w)
    \/ FlushUpdates
    \/ \E reads \in SUBSET UKeys, w \in Writes \cup {NoWrite} : ComponentUpdate(reads, w, FALSE)
    \/ FlushReturn

\* components that may also throw
UThrowNext ==
    \/ \E w \in Writes : Assign(w)
    \/ FlushUpdates
    \/ \E reads \in SUBSET UKeys, w \in Writes \cup {NoWrite}, throws \in BOOLEAN :
          ComponentUpdate(reads, w, throws)
    \/ FlushReturn

(***************************************************************************)
(* Part F: AdvancedParser, AdvancedCompiler and LuaUIRuntime.compile        *)
(* (src/luaui.js).  A source text is given as the token list its lexer      *)
(* produces.  A token is written as its type, except an identifier and a    *)
(* number, which are written as their text.  The parser is modelled for the *)
(* token types listed in TokenTypes: a grammar routine that tests for a     *)
(* token type outside this list never finds it, and the expression levels   *)
(* whose operators are all outside the list (conditional, logical, bitwise, *)
(* equality, relational, shift, multiplicative, postfix, member) return     *)
(* their operand.                                                           *)
(***************************************************************************)
MaxLines == 3
MaxNest == 2
MaxExpr == 5

Identifiers == {"x", "y", "f"}
Numbers == {"1", "2"}
TokenTypes ==
    {"IDENTIFIER", "NUMBER", "LET", "ASSIGN", "LEFT_PAREN", "RIGHT_PAREN", "MINUS", "POWER",
     "WHILE", "DO", "END", "FUNCTION", "RETURN", "BREAK", "CONTINUE", "REPEAT", "UNTIL",
     "NEWLINE", "EOF"}
TokenType(tok) ==
    IF tok \in Identifiers THEN "IDENTIFIER" ELSE IF tok \in Numbers THEN "NUMBER" ELSE tok

\* an AST node: its type, its operator or name, its child nodes
Node(type, op, kids) == [type |-> type, op |-> op, kids |-> kids]
NoNode == Node("none", "", <<>>)

\* ---- the parser object: this.current, this.errors, this.scope, the exception in flight ----
GlobalScope == [inFunction |-> FALSE, inLoop |-> FALSE, inSwitch |-> FALSE]
NewParser ==
    [current |-> 1, errors |-> <<>>, scope |-> <<GlobalScope>>, thrown |-> None, node |-> NoNode,
     tops |-> <<>>]

Peek(toks, p) == toks[IF p.current <= Len(toks) THEN p.current ELSE Len(toks)]
IsAtEnd(toks, p) == TokenType(Peek(toks, p)) = "EOF"
Previous(toks, p) == toks[p.current - 1]
Advance(toks, p) == IF IsAtEnd(toks, p) THEN p ELSE [p EXCEPT !.current = @ + 1]
Check(toks, p, type) == ~IsAtEnd(toks, p) /\ TokenType(Peek(toks, p)) = type
Threw(p) == p.thrown # None
ThrowError(p, message) == [p EXCEPT !.thrown = message]

Consume(toks, p, type, message) ==
    IF Check(toks, p, type)
    THEN Advance(toks, p)
    ELSE [p EXCEPT !.errors = Append(@, message), !.thrown = message]

RECURSIVE SkipNewlines(_, _)
SkipNewlines(toks, p) ==
    IF Check(toks, p, "NEWLINE") THEN SkipNewlines(toks, Advance(toks, p)) ELSE p

SyncKeywords ==
    {"CLASS", "FUNCTION", "COMPONENT", "VAR", "LET", "CONST", "FOR", "IF", "WHILE", "RETURN",
     "TRY", "THROW"}

RECURSIVE SyncLoop(_, _)
SyncLoop(toks, p) ==
    IF IsAtEnd(toks, p) THEN p
    ELSE IF TokenType(Previous(toks, p)) \in {"SEMICOLON", "NEWLINE"} THEN p
    ELSE IF TokenType(Peek(toks, p)) \in SyncKeywords THEN p
    ELSE SyncLoop(toks, Advance(toks, p))

Synchronize(toks, p) == SyncLoop(toks, Advance(toks, p))

\* this.scope is the last entry; the entries before it are the chain of .parent copies
Scope(p) == p.scope[Len(p.scope)]

Inherited(scope, options) ==
    [f \in DOMAIN scope |-> IF f \in DOMAIN options THEN options[f] ELSE scope[f]]

EnterScope(p, options) == [p EXCEPT !.scope = Append(@, Inherited(Scope(p), options))]

ExitScope(p) ==
    IF Len(p.scope) > 1 THEN [p EXCEPT !.scope = SubSeq(@, 1, Len(@) - 1)] ELSE p

\* ---- expressions ----
RECURSIVE AssignmentExpression(_, _)
RECURSIVE AssignLeft(_, _)
RECURSIVE AdditiveLoop(_, _)
RECURSIVE ExponentiationExpression(_, _)
RECURSIVE ExponentiationLeft(_, _)
RECURSIVE UnaryExpression(_, _)
RECURSIVE CallLoop(_, _)
RECURSIVE FinishCall(_, _, _)
RECURSIVE PrimaryExpression(_, _)

Built(r, type, op, kids) == IF Threw(r) THEN r ELSE [r EXCEPT !.node = Node(type, op, kids)]

Parenthesized(toks, r) ==
    IF Threw(r) THEN r ELSE Consume(toks, r, "RIGHT_PAREN", "Expected ')' after expression")

PrimaryExpression(toks, p) ==
    IF Check(toks, p, "NUMBER")
    THEN Built(Advance(toks, p), "Literal", Peek(toks, p), <<>>)
    ELSE IF Check(toks, p, "IDENTIFIER")
    THEN Built(Advance(toks, p), "Identifier", Peek(toks, p), <<>>)
    ELSE IF Check(toks, p, "LEFT_PAREN")
    THEN Parenthesized(toks, AssignmentExpression(toks, Advance(toks, p)))
    ELSE ThrowError(p, "Unexpected token")

CallFinished(toks, r, callee, args) ==
    IF Threw(r) THEN r
    ELSE Built(Consume(toks, r, "RIGHT_PAREN", "Expected ')' after arguments"),
               "CallExpression", "", <<callee>> \o args)

ArgumentParsed(toks, r, callee) == CallFinished(toks, r, callee, <<r.node>>)

FinishCall(toks, p, callee) ==
    IF Check(toks, p, "RIGHT_PAREN")
    THEN CallFinished(toks, p, callee, <<>>)
    ELSE ArgumentParsed(toks, AssignmentExpression(toks, p), callee)

CallLoop(toks, r) ==
    IF Threw(r) THEN r
    ELSE IF Check(toks, r, "LEFT_PAREN")
    THEN CallLoop(toks, FinishCall(toks, Advance(toks, r), r.node))
    ELSE r

CallExpression(toks, p) == CallLoop(toks, PrimaryExpression(toks, p))

UnaryBuilt(r, operator) == Built(r, "UnaryExpression", operator, <<r.node>>)

UnaryExpression(toks, p) ==
    IF Check(toks, p, "MINUS")
    THEN UnaryBuilt(UnaryExpression(toks, Advance(toks, p)), "-")
    ELSE CallExpression(toks, p)

BinaryBuilt(r, operator, left) == Built(r, "BinaryExpression", operator, <<left, r.node>>)

ExponentiationLeft(toks, r) ==
    IF Threw(r) THEN r
    ELSE IF Check(toks, r, "POWER")
    THEN BinaryBuilt(ExponentiationExpression(toks, Advance(toks, r)), "**", r.node)
    ELSE r

ExponentiationExpression(toks, p) == ExponentiationLeft(toks, UnaryExpression(toks, p))

AdditiveLoop(toks, r) ==
    IF Threw(r) THEN r
    ELSE IF Check(toks, r, "MINUS")
    THEN AdditiveLoop(toks, BinaryBuilt(ExponentiationExpression(toks, Advance(toks, r)),
                                        "-", r.node))
    ELSE r

AdditiveExpression(toks, p) == AdditiveLoop(toks, ExponentiationExpression(toks, p))

AssignBuilt(r, left) == Built(r, "AssignmentExpression", "=", <<left, r.node>>)

AssignLeft(toks, r) ==
    IF Threw(r) THEN r
    ELSE IF Check(toks, r, "ASSIGN")
    THEN AssignBuilt(AssignmentExpression(toks, Advance(toks, r)), r.node)
    ELSE r

AssignmentExpression(toks, p) == AssignLeft(toks, AdditiveExpression(toks, p))

Expression(toks, p) == AssignmentExpression(toks, p)
\* ---- statements ----
RECURSIVE Statement(_, _)
RECURSIVE BlockLoop(_, _, _)
RECURSIVE BlockNext(_, _, _)

VariableBuilt(r, name) == Built(r, "VariableDeclaration", name, <<r.node>>)

VariableNamed(toks, r, name) ==
    IF Threw(r) THEN r
    ELSE IF Check(toks, r, "ASSIGN")
    THEN VariableBuilt(AssignmentExpression(toks, Advance(toks, r)), name)
    ELSE Built(r, "VariableDeclaration", name, <<>>)

VariableDeclaration(toks, p) ==
    VariableNamed(toks, Consume(toks, p, "IDENTIFIER", "Expected variable name"), Peek(toks, p))

\* the statement loop of a Lua-style block, and of a Lua-style function body
BlockNext(toks, r, body) ==
    IF Threw(r) THEN r ELSE BlockLoop(toks, SkipNewlines(toks, r), Append(body, r.node))

BlockLoop(toks, p, body) ==
    IF Check(toks, p, "END") \/ IsAtEnd(toks, p)
    THEN Built(p, "BlockStatement", "", body)
    ELSE IF Check(toks, p, "NEWLINE")
    THEN BlockLoop(toks, Advance(toks, p), body)
    ELSE BlockNext(toks, Statement(toks, p), body)

BlockStatement(toks, p) == BlockLoop(toks, p, <<>>)

FunctionBuilt(r, name, body) == Built(ExitScope(r), "FunctionDeclaration", name, <<body>>)

FunctionEnd(toks, r, name) ==
    IF Threw(r) THEN r
    ELSE FunctionBuilt(Consume(toks, r, "END", "Expected 'end' after function body"),
                       name, r.node)

FunctionBody(toks, r, name) ==
    IF Threw(r) THEN r
    ELSE FunctionEnd(toks, BlockLoop(toks, SkipNewlines(toks, EnterScope(r, [inFunction |-> TRUE])),
                                     <<>>), name)

FunctionParameter(toks, r, name) ==
    IF Threw(r) THEN r
    ELSE FunctionBody(toks, Consume(toks, r, "RIGHT_PAREN", "Expected ')' after parameters"), name)

FunctionParameters(toks, r, name) ==
    IF Threw(r) THEN r
    ELSE IF Check(toks, r, "RIGHT_PAREN")
    THEN FunctionParameter(toks, r, name)
    ELSE FunctionParameter(toks, Consume(toks, r, "IDENTIFIER", "Expected parameter name"), name)

FunctionNamed(toks, r, name) ==
    IF Threw(r) THEN r
    ELSE FunctionParameters(toks, Consume(toks, r, "LEFT_PAREN", "Expected '(' after function name"),
                            name)

FunctionDeclaration(toks, p) ==
    FunctionNamed(toks, Consume(toks, p, "IDENTIFIER", "Expected function name"), Peek(toks, p))

WhileBuilt(r, test, body) == Built(r, "WhileStatement", "", <<test, body>>)

WhileBody(toks, r, test) ==
    IF Threw(r) THEN r
    ELSE WhileBuilt(Consume(toks, ExitScope(r), "END", "Expected 'end' after while body"),
                    test, r.node)

WhileDo(toks, r, test) ==
    IF Threw(r) THEN r
    ELSE WhileBody(toks, BlockStatement(toks, EnterScope(SkipNewlines(toks, r), [inLoop |-> TRUE])),
                   test)

WhileTested(toks, r) ==
    IF Threw(r) THEN r
    ELSE WhileDo(toks, Consume(toks, r, "DO", "Expected 'do' after while condition"), r.node)

WhileStatement(toks, p) == WhileTested(toks, Expression(toks, p))

\* repeat ... until test: the node holds the body and the negated test
RepeatBuilt(r, body) ==
    Built(r, "RepeatStatement", "", <<body, Node("UnaryExpression", "!", <<r.node>>)>>)

RepeatUntil(toks, r, body) ==
    IF Threw(r) THEN r ELSE RepeatBuilt(Expression(toks, r), body)

RepeatBody(toks, r) ==
    IF Threw(r) THEN r
    ELSE RepeatUntil(toks, Consume(toks, ExitScope(r), "UNTIL",
                                   "Expected 'until' after repeat body"),
                     r.node)

RECURSIVE RepeatLoop(_, _, _)
RepeatNext(toks, r, body) ==
    IF Threw(r) THEN r ELSE RepeatLoop(toks, SkipNewlines(toks, r), Append(body, r.node))

RepeatLoop(toks, p, body) ==
    IF Check(toks, p, "UNTIL") \/ IsAtEnd(toks, p)
    THEN Built(p, "BlockStatement", "", body)
    ELSE IF Check(toks, p, "NEWLINE")
    THEN RepeatLoop(toks, Advance(toks, p), body)
    ELSE RepeatNext(toks, Statement(toks, p), body)

RepeatStatement(toks, p) ==
    RepeatBody(toks, RepeatLoop(toks, EnterScope(SkipNewlines(toks, p), [inLoop |-> TRUE]),
                                <<>>))

ReturnOutside == "Return statement outside function"
BreakOutside == "Break statement outside loop or switch"
ContinueOutside == "Continue statement outside loop"

ReturnBuilt(r) == Built(r, "ReturnStatement", "", <<r.node>>)

ReturnStatement(toks, p) ==
    IF ~Scope(p).inFunction
    THEN ThrowError(p, ReturnOutside)
    ELSE IF \E type \in {"NEWLINE", "EOF", "SEMICOLON", "END"} : Check(toks, p, type)
    THEN Built(p, "ReturnStatement", "", <<>>)
    ELSE ReturnBuilt(Expression(toks, p))

\* this.labels is empty: no routine of the parser adds a label
Labelled(toks, p, type) ==
    IF Check(toks, p, "IDENTIFIER")
    THEN ThrowError(Advance(toks, p), "Undefined label")
    ELSE Built(p, type, "", <<>>)

BreakStatement(toks, p) ==
    IF ~Scope(p).inLoop /\ ~Scope(p).inSwitch
    THEN ThrowError(p, BreakOutside)
    ELSE Labelled(toks, p, "BreakStatement")

ContinueStatement(toks, p) ==
    IF ~Scope(p).inLoop
    THEN ThrowError(p, ContinueOutside)
    ELSE Labelled(toks, p, "ContinueStatement")

ExpressionBuilt(r) == Built(r, "ExpressionStatement", "", <<r.node>>)

ExpressionStatement(toks, p) == ExpressionBuilt(Expression(toks, p))

Statement(toks, p) ==
    IF Check(toks, p, "FUNCTION") THEN FunctionDeclaration(toks, Advance(toks, p))
    ELSE IF Check(toks, p, "LET") THEN VariableDeclaration(toks, Advance(toks, p))
    ELSE IF Check(toks, p, "WHILE") THEN WhileStatement(toks, Advance(toks, p))
    ELSE IF Check(toks, p, "REPEAT") THEN RepeatStatement(toks, Advance(toks, p))
    ELSE IF Check(toks, p, "RETURN") THEN ReturnStatement(toks, Advance(toks, p))
    ELSE IF Check(toks, p, "BREAK") THEN BreakStatement(toks, Advance(toks, p))
    ELSE IF Check(toks, p, "CONTINUE") THEN ContinueStatement(toks, Advance(toks, p))
    ELSE ExpressionStatement(toks, p)

\* ---- parse() ----
RECURSIVE ParseLoop(_, _, _)

\* tops is not a field of the object parse() returns: it lists this.scope as
\* it was each time the loop of parse() called statement()
Program(body, errors, tops) ==
    [type |-> "Program", body |-> body, errors |-> errors, tops |-> tops]
NoProgram == [type |-> "none", body |-> <<>>, errors |-> <<>>, tops |-> <<>>]

\* catch (error) { this.errors.push(error); this.synchronize(); }
Caught(toks, r) == Synchronize(toks, [r EXCEPT !.errors = Append(@, r.thrown), !.thrown = None])

ParseNext(toks, r, body) ==
    IF Threw(r)
    THEN ParseLoop(toks, SkipNewlines(toks, Caught(toks, r)), body)
    ELSE ParseLoop(toks, SkipNewlines(toks, r), Append(body, r.node))

ParseLoop(toks, p, body) ==
    IF IsAtEnd(toks, p) THEN Program(body, p.errors, p.tops)
    ELSE IF Check(toks, p, "NEWLINE") THEN ParseLoop(toks, Advance(toks, p), body)
    ELSE ParseNext(toks, Statement(toks, [p EXCEPT !.tops = Append(@, Scope(p))]), body)

Parse(toks) == ParseLoop(toks, SkipNewlines(toks, NewParser), <<>>)
\* ---- AdvancedCompiler: the generated text, as the list of its words ----
RECURSIVE CompileExpression(_)
RECURSIVE CompileStatement(_)
RECURSIVE CompileStatements(_, _)

\* compileIdentifier: none of Identifiers is one of the special element names
CompileExpression(node) ==
    IF node.type \in {"Identifier", "Literal"} THEN <<node.op>>
    ELSE IF node.type = "UnaryExpression" THEN <<node.op>> \o CompileExpression(node.kids[1])
    ELSE IF node.type = "BinaryExpression"
    THEN <<"(">> \o CompileExpression(node.kids[1]) \o <<node.op>>
              \o CompileExpression(node.kids[2]) \o <<")">>
    ELSE IF node.type = "AssignmentExpression"
    THEN CompileExpression(node.kids[1]) \o <<node.op>> \o CompileExpression(node.kids[2])
    ELSE CompileExpression(node.kids[1]) \o <<"(">>
             \o (IF Len(node.kids) > 1 THEN CompileExpression(node.kids[2]) ELSE <<>>) \o <<")">>

\* default: throw new Error(`Unknown statement type: ${node.type}`); the
\* exception is the word UnknownStatement in the text, which compile() looks for
UnknownStatement == "Unknown statement type"

CompileStatements(body, i) ==
    IF i > Len(body) THEN <<>> ELSE CompileStatement(body[i]) \o CompileStatements(body, i + 1)

CompileStatement(node) ==
    IF node.type = "FunctionDeclaration"
    THEN <<"function", node.op, "(", ")", "{">> \o CompileStatement(node.kids[1]) \o <<"}">>
    ELSE IF node.type = "VariableDeclaration"
    THEN <<"let", node.op>>
             \o (IF node.kids = <<>> THEN <<>> ELSE <<"=">> \o CompileExpression(node.kids[1]))
             \o <<";">>
    ELSE IF node.type = "WhileStatement"
    THEN <<"while", "(">> \o CompileExpression(node.kids[1]) \o <<")">>
             \o CompileStatement(node.kids[2])
    ELSE IF node.type = "ReturnStatement"
    THEN <<"return">> \o (IF node.kids = <<>> THEN <<>> ELSE CompileExpression(node.kids[1]))
             \o <<";">>
    ELSE IF node.type = "BreakStatement" THEN <<"break", ";">>
    ELSE IF node.type = "ContinueStatement" THEN <<"continue", ";">>
    ELSE IF node.type = "BlockStatement"
    THEN <<"{">> \o CompileStatements(node.kids, 1) \o <<"}">>
    ELSE IF node.type = "ExpressionStatement" THEN CompileExpression(node.kids[1]) \o <<";">>
    ELSE <<UnknownStatement>>

CompileProgram(node) == CompileStatements(node.body, 1)

\* optimize(code): the patterns it rewrites hold the words if, true or false,
\* which no generated text of this model holds
Optimize(code) == code

\* new Function(..., text) throws a SyntaxError for a text that is no function
\* body: for the texts generated from LinePrograms, when let declares a name twice
DeclaredTwice(code) ==
    \E i, j \in 1..Len(code) - 1 :
        i < j /\ code[i] = "let" /\ code[j] = "let" /\ code[i + 1] = code[j + 1]

NotCompiled == [outcome |-> "none", code |-> <<>>]
NewFunction(code) ==
    IF DeclaredTwice(code)
    THEN [outcome |-> "thrown", code |-> <<>>]
    ELSE [outcome |-> "function", code |-> code]

\* catch (error) { throw new Error(`Compilation Error: ${error.message}`) }
CompilationError(code) ==
    IF \E n \in DOMAIN code : code[n] = UnknownStatement
    THEN [outcome |-> "unknown statement", code |-> <<>>]
    ELSE NewFunction(Optimize(code))

CompilerCompile(ast) == CompilationError(CompileProgram(ast))

\* ---- source texts ----
GoodLines == {<<"LET", "x", "ASSIGN", "1">>, <<"y", "ASSIGN", "2">>}
BadLines == {<<"LET", "ASSIGN", "1">>, <<"LET", "x", "ASSIGN">>}
Jumps == {<<"RETURN">>, <<"BREAK">>, <<"CONTINUE">>}

RECURSIVE JoinLines(_, _)
JoinLines(lines, i) ==
    IF i > Len(lines) THEN <<>>
    ELSE lines[i] \o (IF i < Len(lines) THEN <<"NEWLINE">> ELSE <<>>) \o JoinLines(lines, i + 1)

\* AdvancedLexer.tokenize on the lines of a text: one NEWLINE between two lines, EOF last
Tokenize(lines) == JoinLines(lines, 1) \o <<"EOF">>

InWhile(body) == <<"WHILE", "x", "DO", "NEWLINE">> \o body \o <<"NEWLINE", "END">>
InFunction(body) ==
    <<"FUNCTION", "f", "LEFT_PAREN", "RIGHT_PAREN", "NEWLINE">> \o body \o <<"NEWLINE", "END">>

RECURSIVE Nested(_)
Nested(depth) ==
    IF depth = 0 THEN Jumps \cup {<<"y", "ASSIGN", "2">>}
    ELSE Nested(depth - 1) \cup {InWhile(b) : b \in Nested(depth - 1)}
                           \cup {InFunction(b) : b \in Nested(depth - 1)}

LinePrograms == UNION {[1..n -> GoodLines \cup BadLines] : n \in 1..MaxLines}
NestPrograms == {<<b>> : b \in Nested(MaxNest)} \cup {<<b, j>> : b \in Nested(MaxNest), j \in Jumps}
ExprTokens == {"MINUS", "POWER", "2", "x", "y"}
ExprPrograms == UNION {[1..n -> ExprTokens] : n \in 1..MaxExpr}

LineSources == {Tokenize(prog) : prog \in LinePrograms}
RepeatLine == <<"REPEAT", "y", "ASSIGN", "2", "UNTIL", "x">>
RepeatSources ==
    {Tokenize(<<RepeatLine>>)} \cup {Tokenize(<<g, RepeatLine>>) : g \in GoodLines}
Sources == LineSources \cup {Tokenize(prog) : prog \in NestPrograms}
                       \cup {Tokenize(<<e>>) : e \in ExprPrograms}
                       \cup RepeatSources

PFrozen ==
    /\ pTokens = <<"EOF">>
    /\ pAst = NoProgram
    /\ pCompiled = NotCompiled
    /\ pCall = "none"

PInit ==
    /\ pTokens \in Sources
    /\ pAst = NoProgram
    /\ pCompiled = NotCompiled
    /\ pCall = "none"

\* new AdvancedParser(tokens).parse()
ParserParse ==
    /\ pCall = "none"
    /\ pAst' = Parse(pTokens)
    /\ pCall' = "parse"
    /\ UNCHANGED <<pTokens, pCompiled>>
    /\ UNCHANGED notF

Compiled(ast) ==
    /\ pAst' = ast
    /\ pCompiled' = CompilerCompile(ast)

\* runtime.compile(source)
RuntimeCompile ==
    /\ pCall = "none"
    /\ pTokens \in LineSources \cup RepeatSources
    /\ Compiled(Parse(pTokens))
    /\ pCall' = "compile"
    /\ UNCHANGED pTokens
    /\ UNCHANGED notF

PNext == ParserParse \/ RuntimeCompile

(***************************************************************************)
(* Part G: the JavaScript loop generated for `for i = a, b [, s] do ... end`*)
(* by Compiler.compileForStatement (src/unnamed/part_000) and by            *)
(* AdvancedParser.forStatement with AdvancedCompiler.compileForStatement    *)
(* (src/luaui.js), and its execution.  a, b and s are integer literals; the *)
(* body does not assign the loop variable.                                  *)
(***************************************************************************)
MaxInt == 3
MaxIter == 5

NoStep == [given |-> FALSE, value |-> 0]
Step(s) == [given |-> TRUE, value |-> s]
NumericFor(a, b, step) == [start |-> a, end |-> b, step |-> step]
ForLoop(init, test, end, update, step) ==
    [init |-> init, test |-> test, end |-> end, update |-> update, step |-> step]
NoLoop == ForLoop(0, "", 0, "", 0)

\* the loop of compileForStatement with the test i < end
CompileForExclusive(node) ==
    ForLoop(node.start, "<", node.end, "+=", IF node.step.given THEN node.step.value ELSE 1)

\* const step = node.step ? this.compileExpression(node.step) : '1'
\* for (let i = start; i <= end; i += step) { body }
CompileForStatement(node) ==
    ForLoop(node.start, "<=", node.end, "+=", IF node.step.given THEN node.step.value ELSE 1)

\* the ForStatement node: test { operator: '<=' }, update { operator: '+=',
\* right: step || { type: LITERAL, value: 1 } }
ForStatement(node) ==
    [init |-> node.start,
     test |-> [operator |-> "<=", right |-> node.end],
     update |-> [operator |-> "+=", right |-> IF node.step.given THEN node.step.value ELSE 1]]

\* for (${init}; ${test}; ${update}) ${body}
AdvancedCompileForStatement(ast) ==
    ForLoop(ast.init, ast.test.operator, ast.test.right, ast.update.operator, ast.update.right)


\* JavaScript evaluation of the test `i <= end` and of the update `i += step`
LoopTest(test, i, end) == IF test = "<=" THEN i <= end ELSE i < end
LoopUpdate(update, i, step) == IF update = "+=" THEN i + step ELSE i - step

GFrozen ==
    /\ gNode = NumericFor(0, 0, NoStep)
    /\ gCompiler = None
    /\ gCode = NoLoop
    /\ gI = 0
    /\ gRuns = <<>>
    /\ gPc = "source"

GInit ==
    /\ gNode \in {NumericFor(a, b, s) : a \in 0..MaxInt, b \in 0..MaxInt,
                                          s \in {NoStep, Step(-1), Step(1), Step(2)}}
    /\ gCompiler = None
    /\ gCode = NoLoop
    /\ gI = 0
    /\ gRuns = <<>>
    /\ gPc = "source"

\* the loop is entered: let i = start
Entered(compiler, code) ==
    /\ gCompiler' = compiler
    /\ gCode' = code
    /\ gI' = code.init
    /\ gRuns' = <<>>
    /\ gPc' = "test"

\* part_000: the source is compiled and the generated loop is entered
CompileAndEnter ==
    /\ gPc = "source"
    /\ Entered("Compiler", CompileForStatement(gNode))
    /\ UNCHANGED gNode
    /\ UNCHANGED notG

\* luaui.js: the source is parsed and compiled and the generated loop is entered
AdvancedCompileAndEnter ==
    /\ gPc = "source"
    /\ Entered("AdvancedCompiler", AdvancedCompileForStatement(ForStatement(gNode)))
    /\ UNCHANGED gNode
    /\ UNCHANGED notG

\* the test of the loop; the loop is left when it is false
TestLoop ==
    /\ gPc = "test"
    /\ gPc' = IF LoopTest(gCode.test, gI, gCode.end) THEN "body" ELSE "done"
    /\ UNCHANGED <<gNode, gCompiler, gCode, gI, gRuns>>
    /\ UNCHANGED notG

\* the body runs once, then the update
RunBody ==
    /\ gPc = "body"
    /\ Len(gRuns) < MaxIter
    /\ gRuns' = Append(gRuns, gI)
    /\ gI' = LoopUpdate(gCode.update, gI, gCode.step)
    /\ gPc' = "test"
    /\ UNCHANGED <<gNode, gCompiler, gCode>>
    /\ UNCHANGED notG

GNext == CompileAndEnter \/ AdvancedCompileAndEnter \/ TestLoop \/ RunBody

(***************************************************************************)
(* Part H: one object wrapped by AdvancedReactiveSystem.readonly and by     *)
(* AdvancedReactiveSystem.reactive (src/luaui.js).  User code assigns and   *)
(* deletes keys through either proxy.  An assignment or a delete whose trap *)
(* returns false is a no-op in sloppy-mode code and a TypeError in          *)
(* strict-mode code; the mode of the calling code is an input.              *)
(***************************************************************************)
MaxProxyOps == 3

HKeys == {"a", "b"}
HVals == {"v1", "v2"}

ProxyOp(op, key, threw) == [op |-> op, key |-> key, threw |-> threw]
NoProxyOp == ProxyOp("none", "none", FALSE)

\* what the calling code sees when the trap has returned result
ThrowsTypeError(result, strict) == ~result /\ strict

\* set: () => { console.warn(...); return false; }
ReadonlySetTrap == FALSE
\* deleteProperty: () => { console.warn(...); return false; }
ReadonlyDeleteTrap == FALSE

HFrozen ==
    /\ hTarget = [k \in HKeys |-> Undefined]
    /\ hWarnings = 0
    /\ hTriggers = 0
    /\ hLast = NoProxyOp

HInit ==
    /\ hTarget \in [HKeys -> HVals \cup {Undefined}]
    /\ hWarnings = 0
    /\ hTriggers = 0
    /\ hLast = NoProxyOp

\* readonlyProxy[key] = value, in strict-mode or in sloppy-mode code
ReadonlySet(key, value, strict) ==
    /\ hWarnings + hTriggers < MaxProxyOps
    /\ hWarnings' = hWarnings + 1
    /\ hLast' = ProxyOp("readonly.set", key, ThrowsTypeError(ReadonlySetTrap, strict))
    /\ UNCHANGED <<hTarget, hTriggers>>
    /\ UNCHANGED notH

\* delete readonlyProxy[key]
ReadonlyDelete(key, strict) ==
    /\ hWarnings + hTriggers < MaxProxyOps
    /\ hWarnings' = hWarnings + 1
    /\ hLast' = ProxyOp("readonly.delete", key, ThrowsTypeError(ReadonlyDeleteTrap, strict))
    /\ UNCHANGED <<hTarget, hTriggers>>
    /\ UNCHANGED notH

\* reactiveProxy[key] = value: Reflect.set, then trigger when the value changed
ReactiveSet(key, value) ==
    /\ hWarnings + hTriggers < MaxProxyOps
    /\ hTarget[key] # value
    /\ hTarget' = [hTarget EXCEPT ![key] = value]
    /\ hTriggers' = hTriggers + 1
    /\ hLast' = ProxyOp("reactive.set", key, FALSE)
    /\ UNCHANGED hWarnings
    /\ UNCHANGED notH

\* delete reactiveProxy[key]: Reflect.deleteProperty, then trigger when the key was present
ReactiveDelete(key) ==
    /\ hWarnings + hTriggers < MaxProxyOps
    /\ hTarget[key] # Undefined
    /\ hTarget' = [hTarget EXCEPT ![key] = Undefined]
    /\ hTriggers' = hTriggers + 1
    /\ hLast' = ProxyOp("reactive.delete", key, FALSE)
    /\ UNCHANGED hWarnings
    /\ UNCHANGED notH

HNext ==
    \/ \E key \in HKeys, value \in HVals, strict \in BOOLEAN : ReadonlySet(key, value, strict)
    \/ \E key \in HKeys, strict \in BOOLEAN : ReadonlyDelete(key, strict)
    \/ \E key \in HKeys, value \in HVals : ReactiveSet(key, value)
    \/ \E key \in HKeys : ReactiveDelete(key)

(***************************************************************************)
(* Part I: queueJob, queueFlush and flushJobs of AdvancedReactiveSystem     *)
(* (src/luaui.js) with plain jobs.  A job is a function that returns        *)
(* normally, stays active, and may call queueJob while it runs.  A flush is *)
(* one microtask: no user code runs between its steps.                      *)
(***************************************************************************)
MaxJobCalls == 2

Jobs == {"J1", "J2", "J3"}

\* job.id of a plain function is undefined (and the id of an effect is NaN)
JobIds == [j \in Jobs |-> Undefined]

JobQueue(jobs, pending) == [queue |-> jobs, pending |-> pending]

\* this.queue left as it is by flushJobs
QueueKept(jobs) == jobs

\* this.queue.clear()
QueueCleared(jobs) == <<>>

\* queueJob(job), with queueFlush()
QueueJobInto(q, job) ==
    IF job \in Range(q.queue) THEN q ELSE JobQueue(Append(q.queue, job), TRUE)

NoJobFlush == [active |-> FALSE, sorted |-> <<>>, flushIndex |-> 0, running |-> None, calls |-> 0]

JFrozen ==
    /\ jobQueue = <<>>
    /\ jobFlushPending = FALSE
    /\ jobFlush = NoJobFlush
    /\ jobRuns = [j \in Jobs |-> 0]
    /\ jobAsked = {}

JInit == JFrozen

Queued(q) ==
    /\ jobQueue' = q.queue
    /\ jobFlushPending' = q.pending

\* user code calls queueJob(job) between two microtasks
UserQueueJob(job) ==
    /\ ~jobFlush.active
    /\ Queued(QueueJobInto(JobQueue(jobQueue, jobFlushPending), job))
    /\ UNCHANGED <<jobFlush, jobRuns, jobAsked>>
    /\ UNCHANGED notI

\* the microtask of queueFlush: flushJobs() up to the start of its loop
StartFlush ==
    /\ ~jobFlush.active
    /\ jobFlushPending
    /\ jobFlushPending' = FALSE
    /\ jobFlush' = [NoJobFlush EXCEPT !.active = TRUE, !.sorted = SortById(jobQueue, JobIds)]
    /\ jobQueue' = QueueCleared(jobQueue)
    /\ jobRuns' = [j \in Jobs |-> 0]
    /\ jobAsked' = {}
    /\ UNCHANGED notI

\* const job = queue[this.flushIndex]; if (job.active !== false) job()
CallJob ==
    /\ jobFlush.active
    /\ jobFlush.running = None
    /\ jobFlush.flushIndex < Len(jobFlush.sorted)
    /\ jobFlush' = [jobFlush EXCEPT !.running = jobFlush.sorted[jobFlush.flushIndex + 1],
                                    !.calls = 0]
    /\ jobRuns' = [jobRuns EXCEPT ![jobFlush.sorted[jobFlush.flushIndex + 1]] = @ + 1]
    /\ UNCHANGED <<jobQueue, jobFlushPending, jobAsked>>
    /\ UNCHANGED notI

\* the running job calls queueJob(job)
JobQueueJob(job) ==
    /\ jobFlush.running # None
    /\ jobFlush.calls < MaxJobCalls
    /\ Queued(QueueJobInto(JobQueue(jobQueue, jobFlushPending), job))
    /\ jobFlush' = [jobFlush EXCEPT !.calls = @ + 1]
    /\ jobAsked' = jobAsked \cup {job}
    /\ UNCHANGED jobRuns
    /\ UNCHANGED notI

\* the running job returns: this.flushIndex++
JobReturn ==
    /\ jobFlush.running # None
    /\ jobFlush' = [jobFlush EXCEPT !.running = None, !.flushIndex = @ + 1, !.calls = 0]
    /\ UNCHANGED <<jobQueue, jobFlushPending, jobRuns, jobAsked>>
    /\ UNCHANGED notI

\* the loop is over: this.flushIndex = 0, flushJobs returns
FlushJobsReturn ==
    /\ jobFlush.active
    /\ jobFlush.running = None
    /\ jobFlush.flushIndex >= Len(jobFlush.sorted)
    /\ jobFlush' = [jobFlush EXCEPT !.active = FALSE, !.flushIndex = 0]
    /\ UNCHANGED <<jobQueue, jobFlushPending, jobRuns, jobAsked>>
    /\ UNCHANGED notI

JNext ==
    \/ \E job \in Jobs : UserQueueJob(job)
    \/ StartFlush
    \/ CallJob
    \/ \E job \in Jobs : JobQueueJob(job)
    \/ JobReturn
    \/ FlushJobsReturn

(***************************************************************************)
(* Part J: the update scheduling of one mounted AdvancedComponent          *)
(* (src/luaui.js): setState, scheduleUpdate, the microtask it queues and   *)
(* performUpdate.  render and the lifecycle hooks are the user's: render   *)
(* or componentDidUpdate may throw, componentDidUpdate may call setState.  *)
(***************************************************************************)
\* setState calls in one behaviour
MaxSetStates == 4

KFrozen ==
    /\ kIsUpdating = FALSE
    /\ kIsUnmounting = FALSE
    /\ kTicks = 0
    /\ kPc = "idle"
    /\ kHasError = FALSE
    /\ kUpdateCount = 0
    /\ kCalls = 0
    /\ kOwed = FALSE

KInit == KFrozen

\* scheduleUpdate(): if (!this.isUpdating) { this.isUpdating = true; nextTick(...) }
ScheduleComponentUpdate ==
    /\ kIsUpdating' = TRUE
    /\ kTicks' = IF kIsUpdating THEN kTicks ELSE kTicks + 1

\* setState(updater): Object.assign(this.state, newState); this.scheduleUpdate()
SetStateCalled ==
    /\ kCalls < MaxSetStates
    /\ kCalls' = kCalls + 1
    /\ kOwed' = TRUE
    /\ ScheduleComponentUpdate

\* setState called by the application between two microtasks
SetState ==
    /\ kPc = "idle"
    /\ SetStateCalled
    /\ UNCHANGED <<kIsUnmounting, kPc, kHasError, kUpdateCount, notJ>>

\* the microtask queued by scheduleUpdate starts: performUpdate() returns at
\* once when the component is unmounting, and then this.isUpdating = false
TickStarts ==
    /\ kPc = "idle"
    /\ kTicks > 0
    /\ kTicks' = kTicks - 1
    /\ IF kIsUnmounting
       THEN UNCHANGED <<kPc, kOwed>> /\ kIsUpdating' = FALSE
       ELSE kPc' = "render" /\ kOwed' = FALSE /\ UNCHANGED kIsUpdating
    /\ UNCHANGED <<kIsUnmounting, kHasError, kUpdateCount, kCalls, notJ>>

\* performUpdate: componentWillUpdate, render, diff and patch succeed;
\* this.updateCount++; componentDidUpdate is entered
Rendered ==
    /\ kPc = "render"
    /\ kPc' = "didUpdate"
    /\ kUpdateCount' = kUpdateCount + 1
    /\ UNCHANGED <<kIsUpdating, kIsUnmounting, kTicks, kHasError, kCalls, kOwed, notJ>>

\* catch (error) { this.handleError(error) }; performUpdate returns and the
\* microtask sets this.isUpdating = false
UpdateThrows ==
    /\ kPc \in {"render", "didUpdate"}
    /\ kPc' = "idle"
    /\ kHasError' = TRUE
    /\ kIsUpdating' = FALSE
    /\ UNCHANGED <<kIsUnmounting, kTicks, kUpdateCount, kCalls, kOwed, notJ>>

\* componentDidUpdate calls this.setState(...)
SetStateInDidUpdate ==
    /\ kPc = "didUpdate"
    /\ SetStateCalled
    /\ UNCHANGED <<kIsUnmounting, kPc, kHasError, kUpdateCount, notJ>>

\* componentDidUpdate returns, performUpdate returns, this.isUpdating = false
UpdateReturns ==
    /\ kPc = "didUpdate"
    /\ kPc' = "idle"
    /\ kIsUpdating' = FALSE
    /\ UNCHANGED <<kIsUnmounting, kTicks, kHasError, kUpdateCount, kCalls, kOwed, notJ>>

\* cleanup(): componentWillUnmount, this.isUnmounting = true
Cleanup ==
    /\ kPc = "idle"
    /\ ~kIsUnmounting
    /\ kIsUnmounting' = TRUE
    /\ UNCHANGED <<kIsUpdating, kTicks, kPc, kHasError, kUpdateCount, kCalls, kOwed, notJ>>

\* the steps the JavaScript engine takes by itself
KEngine == TickStarts \/ Rendered \/ UpdateThrows \/ UpdateReturns

KNext ==
    \/ SetState
    \/ TickStarts
    \/ Rendered
    \/ UpdateThrows
    \/ SetStateInDidUpdate
    \/ UpdateReturns
    \/ Cleanup

(***************************************************************************)
(* Part K: LuaUIRuntime.compileAndMount (src/luaui.js).  A source defines   *)
(* components; the compiled code registers each of them under its name when *)
(* it runs.  A class is identified by its name and by the call whose source *)
(* defined it.                                                              *)
(***************************************************************************)
\* calls of compileAndMount in one behaviour
MaxCompiles == 3
\* component definitions in one source
MaxDefs == 2

ComponentNames == {"App", "Counter", "Todo"}
ComponentClass(name, by) == [name |-> name, by |-> by]
NoClass == ComponentClass("none", 0)

\* the sources: the names of the components they define, in order
ComponentSources ==
    {s \in UNION {[1..n -> ComponentNames] : n \in 1..MaxDefs} :
        \A a, b \in DOMAIN s : a # b => s[a] # s[b]}

\* this.components.set(name, componentClass): a Map keeps the position of a
\* key it already holds
RegisterComponent(components, name, class) ==
    IF \E k \in DOMAIN components : components[k].name = name
    THEN [k \in DOMAIN components |->
             IF components[k].name = name THEN class ELSE components[k]]
    ELSE Append(components, class)

\* compiledFunction(...): the definitions of the source run in order
RECURSIVE RunCompiled(_, _, _)
RunCompiled(components, defs, call) ==
    IF defs = <<>> THEN components
    ELSE RunCompiled(RegisterComponent(components, Head(defs),
                                       ComponentClass(Head(defs), call)),
                     Tail(defs), call)

\* this.components.get(name)
GetComponent(components, name) ==
    IF \E k \in DOMAIN components : components[k].name = name
    THEN components[CHOOSE k \in DOMAIN components : components[k].name = name]
    ELSE NoClass

\* this.getComponent('App') || Array.from(this.components.values())[0]
AppComponent(components) ==
    IF GetComponent(components, "App") # NoClass THEN GetComponent(components, "App")
    ELSE IF components # <<>> THEN components[1]
    ELSE NoClass

MFrozen ==
    /\ mComponents = <<>>
    /\ mMounted = NoClass
    /\ mCompiles = 0

MInit == MFrozen

\* compileAndMount(source, container)
CompileAndMount(defs) ==
    /\ mCompiles < MaxCompiles
    /\ mCompiles' = mCompiles + 1
    /\ mComponents' = RunCompiled(mComponents, defs, mCompiles + 1)
    /\ mMounted' = AppComponent(RunCompiled(mComponents, defs, mCompiles + 1))
    /\ UNCHANGED notK

MNext == \E defs \in ComponentSources : CompileAndMount(defs)

(***************************************************************************)
(* Specifications: one per part, the other parts at rest                   *)
(***************************************************************************)
InitReactive == RInit /\ BFrozen /\ CInit /\ DInit /\ UFrozen /\ PFrozen /\ GFrozen /\ HFrozen /\ JFrozen /\ KFrozen /\ MFrozen

SpecReactive == InitReactive /\ [][RNext]_vars

SpecFlush == InitReactive /\ [][FNext]_vars

InitDiff == BInit /\ RInit /\ CInit /\ DInit /\ UFrozen /\ PFrozen /\ GFrozen /\ HFrozen /\ JFrozen /\ KFrozen /\ MFrozen

SpecDiff == InitDiff /\ [][BNext]_vars

InitRenderer == CInit /\ RInit /\ BFrozen /\ DInit /\ UFrozen /\ PFrozen /\ GFrozen /\ HFrozen /\ JFrozen /\ KFrozen /\ MFrozen
SpecRenderer == InitRenderer /\ [][CNext]_vars

InitMount == DInit /\ RInit /\ BFrozen /\ CInit /\ UFrozen /\ PFrozen /\ GFrozen /\ HFrozen /\ JFrozen /\ KFrozen /\ MFrozen
SpecMount == InitMount /\ [][DNext]_vars

InitUpdates == UInit /\ RInit /\ BFrozen /\ CInit /\ DInit /\ PFrozen /\ GFrozen /\ HFrozen /\ JFrozen /\ KFrozen /\ MFrozen
SpecUpdates == InitUpdates /\ [][UNext]_vars
SpecUpdatesThrow == InitUpdates /\ [][UThrowNext]_vars

InitParser == PInit /\ RInit /\ BFrozen /\ CInit /\ DInit /\ UFrozen /\ GFrozen /\ HFrozen /\ JFrozen /\ KFrozen /\ MFrozen
SpecParser == InitParser /\ [][PNext]_vars

InitLoop == GInit /\ RInit /\ BFrozen /\ CInit /\ DInit /\ UFrozen /\ PFrozen /\ HFrozen /\ JFrozen /\ KFrozen /\ MFrozen
SpecLoop == InitLoop /\ [][GNext]_vars

InitProxies == HInit /\ RInit /\ BFrozen /\ CInit /\ DInit /\ UFrozen /\ PFrozen /\ GFrozen /\ JFrozen /\ KFrozen /\ MFrozen
SpecProxies == InitProxies /\ [][HNext]_vars

InitJobs == JInit /\ RInit /\ BFrozen /\ CInit /\ DInit /\ UFrozen /\ PFrozen /\ GFrozen /\ HFrozen /\ KFrozen /\ MFrozen
SpecJobs == InitJobs /\ [][JNext]_vars

InitScheduling == KInit /\ RInit /\ BFrozen /\ CInit /\ DInit /\ UFrozen /\ PFrozen /\ GFrozen /\ HFrozen /\ JFrozen /\ MFrozen
SpecScheduling == InitScheduling /\ [][KNext]_vars
\* a queued microtask runs and a running one goes on: a user function that
\* was entered throws or returns
SpecSchedulingFair ==
    SpecScheduling /\ WF_vars(TickStarts) /\ WF_vars(Rendered \/ UpdateThrows)
        /\ WF_vars(UpdateThrows \/ UpdateReturns)

InitRegistry == MInit /\ RInit /\ BFrozen /\ CInit /\ DInit /\ UFrozen /\ PFrozen /\ GFrozen /\ HFrozen /\ JFrozen /\ KFrozen
SpecRegistry == InitRegistry /\ [][MNext]_vars

(***************************************************************************)
(* Claims about Part A                                                     *)
(***************************************************************************)
RunStartedBy(i, kind) ==
    /\ i > 1
    /\ callStack[i].kind = "run"
    /\ callStack[i - 1].kind = kind

\* C1: an assignment to a property an effect(fn) effect read never runs the effect
\* body synchronously inside the assignment (no run is started by a trigger pass);
\* instead every effect trigger() collected is in the job queue with a flush pending,
\* so that k assignments of one turn give one run, at the next flush.
C1_RerunOnceAtNextFlush ==
    \A i \in 1..Len(callStack) :
        /\ ~RunStartedBy(i, "pass")
        /\ callStack[i].kind = "pass" =>
              \A e \in Range(callStack[i].todo) :
                  active[e] => (e \in Range(queue) /\ isFlushPending)

\* C2: when a run of an active effect completes, the keys whose dependency set holds
\* the effect are exactly the keys the body read during that run.
RunCompletes == Running("run") /\ callStack' = Pop

C9_NoRunWhileInProgress ==
    \A i, j \in 1..Len(effectStack) : i # j => effectStack[i] # effectStack[j]

\* C10: an effect or watcher that is inactive when its turn in a trigger pass or a
\* flush comes is skipped: no body starts, and no watch callback is invoked, for an
\* effect that is not active.
BodyStarts == ~Idle' /\ Len(callStack') > Len(callStack) /\ callStack'[Len(callStack')].kind = "run"

CallbackStarts == Running("job") /\ ~Idle' /\ callStack'[Len(callStack')].kind = "callback"

C10_StoppedIsSkipped ==
    [][/\ BodyStarts => active'[callStack'[Len(callStack')].eff]
       /\ CallbackStarts => active[Watcher]]_vars

(***************************************************************************)
(* Claims about Part B                                                     *)
(***************************************************************************)
\* C5: after performUpdate the node the container shows has exactly as many children
\* as the new VNode has (every extra new child inserted, every extra old child removed).
C5_ChildCountIsNewLength ==
    ~compHasError => Len(containerChild.childNodes) = Len(compVNode.children)

\* C6: after performUpdate the attributes of the node the container shows are the
\* props of the new VNode: changed and added props carry the new value and props
\* absent from the new VNode are gone.
PlainProps(props) == [k \in {x \in DOMAIN props : ~IsEventKey(x)} |-> props[k]]

C6_AttributesAreNewProps ==
    ~compHasError => containerChild.attrs = PlainProps(compVNode.props)

(***************************************************************************)
(* Claims about Part C                                                     *)
(***************************************************************************)
\* C3: DOMRenderer.patch(container, T, T), the same tree object as old and
\* new, makes no render-target call at all (no create, insert, remove,
\* replace, attribute, text or listener call), for every tree T, those with
\* Component nodes and event-handler props included.
C3_SameTreePatchMutatesNothing ==
    cLast.op = "patchSame" => cWorld.log = <<>>

\* C4: when updateChildren reconciles a keyed child list against a
\* permutation of the same keys, the new child with key k carries the handle
\* the old child with key k had, and the only render-target calls are moves.
KeyedPermutationPatched ==
    /\ cLast.op = "patch"
    /\ ~cWorld.err
    /\ cLast.old.type = "ul"
    /\ cTree.type = "ul"
MoveCalls == {"appendChild", "insertBefore"}
C4_KeyedPermutationReusesHandles ==
    KeyedPermutationPatched =>
        /\ \A i, j \in 1..3 :
              cTree.children[i].props.key = cLast.old.children[j].props.key
                  => cTree.children[i].element = cLast.old.children[j].element
        /\ \A n \in DOMAIN cWorld.log : cWorld.log[n].op \in MoveCalls

\* C7: once a component has been unmounted, by LuaUIRuntime.unmount or by a
\* patch that removed or replaced its node, neither it nor any instance
\* nested in its rendered tree is left in an observer set of ReactiveSystem
\* or in DOMRenderer.mountedComponents.
C7_UnmountedLeavesNoReference ==
    \A i \in cLast.gone :
        /\ \A o \in cWorld.observers : o.component # i
        /\ \A q \in cWorld.mountedComponents : q[2] # i


(***************************************************************************)
(* Claims about Part D                                                     *)
(***************************************************************************)
\* C8: if LuaUIRuntime.mount throws at any step, then afterwards the
\* container holds nothing of the component's tree (at most a diagnostic in
\* its place), no entry for the failed instance is left in instances or
\* mountedApps, and the error has been re-thrown to the caller.
MountThrew == dOutcome.op \in {"mount", "process"} /\ dOutcome.threw
C8_FailedMountLeavesNothing ==
    MountThrew =>
        /\ \A n \in DOMAIN dContainers[dOutcome.container] :
              dContainers[dOutcome.container][n] # Item("tree", dOutcome.inst)
        /\ \A q \in dInstances : q[2] # dOutcome.inst
        /\ \A q \in dMountedApps : MapGet(dInstances, q[2]) # {dOutcome.inst}
        /\ dOutcome.rethrown

(***************************************************************************)
(* Claims about Part E                                                     *)
(***************************************************************************)
\* C11: however many assignments of one synchronous turn change keys a
\* component depends on, the component is in the queue with one flush
\* scheduled, that flush calls its update() exactly once (and calls no
\* update() of a component that was not due); an assignment made while a
\* flush runs is queued for one further flush in the same way.
FlushFinished == ~uFlush.active /\ ~uFlush.escaped
C11_OneUpdatePerFlush ==
    /\ \A c \in uDirty : c \in Range(updateQueue) /\ isUpdating /\ uMicrotasks = 1
    /\ \A c \in Comps : uCalls[c] <= 1
    /\ FlushFinished => \A c \in Comps : uCalls[c] = IF c \in uFlush.due THEN 1 ELSE 0

\* a flush that followed several assignments to the keys of one component
\* has finished, and an assignment made during it has scheduled the next
C11_Witness ==
    /\ FlushFinished
    /\ uSteps >= 3
    /\ uFlush.due # {}
    /\ uDirty # {}

\* C12: an exception thrown by a component's update() during flushUpdates
\* does not escape the flush, and every other component queued for that
\* flush is still updated.
C12_UpdateErrorIsContained ==
    /\ ~uFlush.escaped
    /\ uFlush.skipped = <<>>

(***************************************************************************)
(* Claims about Part F                                                      *)
(***************************************************************************)
StatementOf(line) == Parse(Tokenize(<<line>>)).body[1]
BadAt(prog) == {i \in 1..Len(prog) : prog[i] \in BadLines}

\* C13: parse() of a program in which exactly one statement has a syntax error
\* returns an errors list of exactly one entry, and every well-formed statement
\* that starts after the next statement terminator is in the returned body.
C13_OneErrorAndRecovery ==
    \A prog \in LinePrograms :
        (pCall = "parse" /\ pTokens = Tokenize(prog) /\ Cardinality(BadAt(prog)) = 1)
            => /\ Len(pAst.errors) = 1
               /\ \A j \in 1..Len(prog) :
                      (\A i \in BadAt(prog) : j > i) => StatementOf(prog[j]) \in Range(pAst.body)

\* the lexical position of a jump: the loops and functions open around it, outermost first
InsideFunction(open) == "function" \in Range(open)
InsideLoopOfFunction(open) ==
    \E i \in 1..Len(open) : open[i] = "loop" /\ \A j \in i..Len(open) : open[j] # "function"
JumpIsLegal(tok, open) ==
    IF tok = "RETURN" THEN InsideFunction(open) ELSE InsideLoopOfFunction(open)

RECURSIVE IllegalJumps(_, _, _, _)
IllegalJumps(toks, i, open, kind) ==
    IF i > Len(toks) THEN 0
    ELSE IF toks[i] = "WHILE" THEN IllegalJumps(toks, i + 1, Append(open, "loop"), kind)
    ELSE IF toks[i] = "FUNCTION" THEN IllegalJumps(toks, i + 1, Append(open, "function"), kind)
    ELSE IF toks[i] = "END" /\ open # <<>>
    THEN IllegalJumps(toks, i + 1, SubSeq(open, 1, Len(open) - 1), kind)
    ELSE IllegalJumps(toks, i + 1, open, kind)
             + (IF toks[i] = kind /\ ~JumpIsLegal(kind, open) THEN 1 ELSE 0)

ErrorsSaying(errors, message) == Cardinality({k \in DOMAIN errors : errors[k] = message})
JumpMessage(kind) ==
    IF kind = "RETURN" THEN ReturnOutside
    ELSE IF kind = "BREAK" THEN BreakOutside ELSE ContinueOutside

\* C14: the parser raises a parse error for every return that is not lexically
\* inside a function and for every break or continue that is not inside a loop
\* of its innermost enclosing function; a loop around a function definition
\* does not make break or continue legal inside the function body.
C14_JumpsOutsideAreErrors ==
    pCall = "parse" =>
        \A kind \in {"RETURN", "BREAK", "CONTINUE"} :
            ErrorsSaying(pAst.errors, JumpMessage(kind)) >= IllegalJumps(pTokens, 1, <<>>, kind)

\* C15: LuaUIRuntime.compile never returns generated code when the parse result
\* has a non-empty errors list.
C15_NoCodeWhenParseErrors ==
    (pCall = "compile" /\ pAst.errors # <<>>) => pCompiled.outcome # "function"

Operands == ExprTokens \ {"MINUS", "POWER"}
Operand(tok) == Node(IF tok \in Numbers THEN "Literal" ELSE "Identifier", tok, <<>>)
Power(left, right) == Node("BinaryExpression", "**", <<left, right>>)
Negated(arg) == Node("UnaryExpression", "-", <<arg>>)
OneExpression(expr) == <<Node("ExpressionStatement", "", <<expr>>)>>

\* C17: -2^2 parses as -(2^2), and a^b^c parses as a^(b^c).
C17_PowerBindsTighterThanMinus ==
    pCall = "parse" =>
        \A a, b, c \in Operands :
            /\ pTokens = <<"MINUS", a, "POWER", b, "EOF">>
                   => pAst.body = OneExpression(Negated(Power(Operand(a), Operand(b))))
            /\ pTokens = <<a, "POWER", b, "POWER", c, "EOF">>
                   => pAst.body = OneExpression(Power(Operand(a), Power(Operand(b), Operand(c))))

(***************************************************************************)
(* Claims about Part G                                                      *)
(***************************************************************************)
\* the integers a..b in ascending order
Ascending(a, b) == [k \in 1..(IF b >= a THEN b - a + 1 ELSE 0) |-> a + k - 1]

\* C16: the loop generated for `for i = a, b do ... end`, the step omitted, runs
\* the body once per integer from a to b in ascending order, and zero times when
\* a > b; with a > b and an explicit negative step the body runs zero times.
C16_NumericForRunsAscending ==
    /\ (~gNode.step.given /\ gPc # "source")
           => /\ Len(gRuns) <= Len(Ascending(gNode.start, gNode.end))
              /\ gRuns = SubSeq(Ascending(gNode.start, gNode.end), 1, Len(gRuns))
              /\ gPc = "done" => gRuns = Ascending(gNode.start, gNode.end)
    /\ (gNode.step.given /\ gNode.step.value < 0 /\ gNode.start > gNode.end)
           => /\ gRuns = <<>>
              /\ gPc # "body"

C16_Witness ==
    /\ gPc = "done"
    /\ ~gNode.step.given
    /\ Len(gRuns) >= 3

(***************************************************************************)
(* Claims about Part H                                                      *)
(***************************************************************************)
ThroughReadonly == hLast' # hLast /\ hLast'.op \in {"readonly.set", "readonly.delete"}

\* C18: an assignment or a deletion made through the proxy returned by readonly
\* leaves the wrapped object unchanged, triggers no effect, emits a warning and
\* raises no exception.
C18_ReadonlyWriteIsWarnedNoOp ==
    [][ThroughReadonly =>
          /\ hTarget' = hTarget
          /\ hTriggers' = hTriggers
          /\ hWarnings' = hWarnings + 1
          /\ ~hLast'.threw]_vars

(***************************************************************************)
(* Claims about Part I                                                      *)
(***************************************************************************)
FlushJobsFinished == ~jobFlush.active /\ jobFlush.sorted # <<>>

\* C19: every job in the queue when flushJobs starts runs exactly once in that
\* flush, whatever the running jobs pass to queueJob; a job passed to queueJob
\* by a running job (a job of the current pass included) is not skipped and is
\* not run more than once for it: it is put in the queue once, a further flush
\* is scheduled, and the current pass still runs each of its jobs once.
C19_FlushRunsEachJobOnce ==
    /\ \A j \in Jobs : jobRuns[j] <= 1
    /\ \A i, k \in 1..Len(jobFlush.sorted) : jobFlush.sorted[i] = jobFlush.sorted[k] => i = k
    /\ \A i \in 1..Len(jobFlush.sorted) :
           jobRuns[jobFlush.sorted[i]] =
               IF jobFlush.active /\ i > jobFlush.flushIndex + (IF jobFlush.running = None THEN 0 ELSE 1)
               THEN 0 ELSE 1
    /\ \A j \in Jobs \ Range(jobFlush.sorted) : jobRuns[j] = 0
    /\ \A j \in jobAsked :
           /\ jobFlushPending
           /\ Cardinality({i \in 1..Len(jobQueue) : jobQueue[i] = j}) = 1

C19_Witness ==
    /\ FlushJobsFinished
    /\ Len(jobFlush.sorted) >= 2
    /\ jobAsked \cap Range(jobFlush.sorted) # {}
    /\ \A j \in Range(jobFlush.sorted) : jobRuns[j] = 1

(***************************************************************************)
(* Claims about the order of unmounting in Part C                           *)
(***************************************************************************)
\* C20: on every path that takes the node of a component out of the render
\* target (patch removing a node, patch replacing a node by one of a different
\* kind, unmount(container)), the unmount hook of the component runs before
\* its node is detached: no hook is called on an instance whose node has left
\* the container.
C20_HookRunsBeforeDetach ==
    \A i \in 1..Len(cWorld.insts) : ~cWorld.insts[i].hookDetached

\* the element of instance d lies strictly below the element of instance a:
\* d was created while the tree a rendered was being created
RECURSIVE Below(_, _, _)
Below(w, el, anc) ==
    IF el = 0 \/ anc = 0 THEN FALSE
    ELSE ParentOf(w, el) = anc \/ Below(w, ParentOf(w, el), anc)

Descends(w, d, a) == Below(w, w.insts[d].element, w.insts[a].element)

HookIndex(w, i) == CHOOSE k \in DOMAIN w.hooks : w.hooks[k] = i

\* C21: when DOMRenderer.unmount tears down a subtree, the unmount hook of
\* every descendant component runs before the unmount hook of its ancestor
\* component: after a patch, every instance nested in an instance whose hook
\* ran has had its hook run too, and earlier.
C21_ChildrenUnmountBeforeParent ==
    cLast.op \in {"patch", "patchNull"} =>
        \A a \in Range(cWorld.hooks) : \A d \in 1..Len(cWorld.insts) :
            Descends(cWorld, d, a) =>
                /\ d \in Range(cWorld.hooks)
                /\ HookIndex(cWorld, d) < HookIndex(cWorld, a)

(***************************************************************************)
(* Claims about updateComponent in Part C                                   *)
(***************************************************************************)
SameProps(p, q) == DOMAIN p = DOMAIN q /\ \A k \in DOMAIN p : p[k] = q[k]

\* a step of patch that reconciled two Component nodes of one component type
SameTypePatch ==
    /\ cOps' = cOps + 1
    /\ cLast'.op \in {"patch", "patchSame"}
    /\ ~cWorld'.err
    /\ IsComponentVNode(cTree) /\ IsComponentVNode(cTree')
    /\ cTree.ctype = cTree'.ctype

RegisteredFor(w, v) == MapGet(w.mountedComponents, v.vid)

\* C22: when patch reconciles two Component nodes of the same component type
\* no instance is constructed; the instance registered for the old node is the
\* one registered for the new node and no longer for the old one, it has the
\* props of the new node and has rendered once more.
C22_SameTypePatchKeepsInstance ==
    [][SameTypePatch =>
          /\ Len(cWorld'.insts) = Len(cWorld.insts)
          /\ RegisteredFor(cWorld, cTree) # {}
          /\ RegisteredFor(cWorld', cTree') = RegisteredFor(cWorld, cTree)
          /\ cTree'.vid # cTree.vid => RegisteredFor(cWorld', cTree) = {}
          /\ \A i \in RegisteredFor(cWorld, cTree) :
                /\ SameProps(cWorld'.insts[i].props, cTree'.props)
                /\ cWorld'.insts[i].renders = cWorld.insts[i].renders + 1]_vars

\* a Label that was created without props has been patched with a Label node
\* that carries props, and holds them
C22_Witness ==
    /\ cLast.op = "patch"
    /\ IsComponentVNode(cLast.old) /\ IsComponentVNode(cTree)
    /\ cLast.old.ctype = cTree.ctype /\ cLast.old.vid # cTree.vid
    /\ ~SameProps(cLast.old.props, cTree.props)
    /\ \E i \in RegisteredFor(cWorld, cTree) :
          /\ cWorld.insts[i].renders = 2
          /\ SameProps(cWorld.insts[i].props, cTree.props)

(***************************************************************************)
(* Claims about Part J                                                     *)
(***************************************************************************)
\* C23: for a mounted AdvancedComponent that is not unmounting, every setState
\* call is eventually followed by a performUpdate that starts after the call,
\* also when the call is made inside performUpdate and when it is made after
\* an update that ended in an error.
C23_SetStateLeadsToUpdate ==
    (kOwed /\ ~kIsUnmounting) ~> (~kOwed \/ kIsUnmounting)

(***************************************************************************)
(* Claims about the registries and the unmount hook in Part D              *)
(***************************************************************************)
ContainersOf(appId) == {q[1] : q \in {m \in dMountedApps : m[2] = appId}}

\* C24: after any sequence of mount and unmount calls, every instance id held
\* in instances is the mountedApps value of exactly one container, and every
\* mountedApps value is an id held in instances.
C24_RegistriesAgree ==
    /\ \A q \in dInstances : Cardinality(ContainersOf(q[1])) = 1
    /\ \A m \in dMountedApps : MapGet(dInstances, m[2]) # {}

\* C26: unmount(container) invokes componentWillUnmount of the mounted
\* instance exactly once, and a second unmount of the container invokes it
\* no further time.
C26_WillUnmountOnce ==
    \A i \in DOMAIN dInsts :
        /\ dInsts[i].willUnmount <= 1
        /\ dInsts[i].cleaned => dInsts[i].willUnmount = 1

(***************************************************************************)
(* Claims about Component.update in Part C                                  *)
(***************************************************************************)
\* the dom node the container shows for instance i says what its state says
Shows(w, i) ==
    \E n \in DOMAIN w.dom :
        /\ ParentOf(w, n) = Container
        /\ w.dom[n].kids # <<>>
        /\ w.dom[w.dom[n].kids[1]].text = w.insts[i].state.label

\* C25: in v1, after any sequence of updates of a mounted Component, also one
\* in which render returns a root node of a different kind, the element of
\* the instance is the node attached in the container, and the state change
\* has reached the render target.
C25_ElementStaysAttached ==
    cLast.op = "update" =>
        \A i \in MapGet(cInstances, cMountedApps) :
            cWorld.insts[i].class = "Toggle" /\ ~cWorld.err =>
                /\ ParentOf(cWorld, cWorld.insts[i].element) = Container
                /\ Shows(cWorld, i)

(***************************************************************************)
(* Claims about the scope of the parser in Part F                           *)
(***************************************************************************)
\* C27: whenever parse() begins a top-level statement, also the one it resumes
\* at after an error raised inside a function or loop body, the current scope
\* is the global scope (every flag false).
C27_TopLevelScopeIsGlobal ==
    pCall # "none" => \A n \in DOMAIN pAst.tops : pAst.tops[n] = GlobalScope

(***************************************************************************)
(* Claims about the termination of the loop of Part G                      *)
(***************************************************************************)
\* the distance of the loop variable from the value at which the test fails;
\* the body runs only when it is not negative
Remaining(i) == gCode.end - i

\* C28: the loop generated for a numeric for statement terminates for every
\* integer start, end and non-zero step, also for a negative step with
\* start <= end: every run of the body with its update brings the loop
\* variable nearer to the end of the loop.
C28_NumericForTerminates ==
    [][(gPc = "body" /\ gPc' = "test") => Remaining(gI') < Remaining(gI)]_vars

(***************************************************************************)
(* Claims about Part K                                                     *)
(***************************************************************************)
\* C29: for any sequence of compileAndMount calls on sources that each define
\* at least one component, the component a call mounts is one the source of
\* that same call registered, not one an earlier call left in the registry.
C29_MountsOwnComponent ==
    mCompiles > 0 => mMounted.by = mCompiles

(***************************************************************************)
(* Claims about the statement kinds of Part F                               *)
(***************************************************************************)
\* C30: every statement kind the parser can put into an AST, the node of
\* repeat ... until among them, is handled by compileStatement: compiling a
\* program that parsed without errors never raises the unknown-node error.
C30_ParsedStatementsCompile ==
    (pCall = "compile" /\ pAst.errors = <<>>) => pCompiled.outcome # "unknown statement"

====
